---------------------------- MODULE Spec2Model ----------------------------
(***************************************************************************)
(* ToxiGuard: a Telegram moderation bot.  The model covers the scorer and  *)
(* the threshold of services/analyzer.py, the rule filter and the message  *)
(* pipeline of bot/handlers.py and the store of data/manager.py.           *)
(***************************************************************************)
EXTENDS Integers, Sequences, FiniteSets, TLC

(***************************************************************************)
(* Python floats (IEEE-754 binary64, round to nearest, ties to even).      *)
(*                                                                         *)
(* Every float the scorer and the threshold produce is non-negative, at    *)
(* most 101 and a multiple of 2^-64, so a float v is held exactly as the   *)
(* natural number v * 2^64, written in three limbs <<hi, mid, lo>> of 24   *)
(* bits (mid, lo < 2^24).  An operation computes its exact result on the   *)
(* limbs and FRound rounds it to 53 significant bits, as the hardware does.*)
(***************************************************************************)
LimbBase == 2^24

\* the float of a small natural number n (n * 2^64 = n * 2^16 * 2^48)
FInt(n) == <<n * 2^16, 0, 0>>

FZero == FInt(0)

FOne == FInt(1)

\* a < b, a <= b on floats
FLt(a, b) ==
    \/ a[1] < b[1]
    \/ a[1] = b[1] /\ a[2] < b[2]
    \/ a[1] = b[1] /\ a[2] = b[2] /\ a[3] < b[3]

FLe(a, b) == ~FLt(b, a)

\* Python's max(a, b) and min(a, b): the first argument unless the second
\* is strictly larger (smaller); on equal floats the choice is invisible
FMax(a, b) == IF FLt(a, b) THEN b ELSE a

FMin(a, b) == IF FLt(b, a) THEN b ELSE a

\* the exact sum of two limb numbers
ExactAdd(a, b) ==
    LET lo  == a[3] + b[3]
        mid == a[2] + b[2] + (lo \div LimbBase)
    IN  <<a[1] + b[1] + (mid \div LimbBase), mid % LimbBase, lo % LimbBase>>

\* the exact difference a - b of two limb numbers, a >= b
ExactSub(a, b) ==
    LET lo  == a[3] - b[3]
        bl  == IF lo < 0 THEN 1 ELSE 0
        mid == a[2] - b[2] - bl
        bm  == IF mid < 0 THEN 1 ELSE 0
    IN  <<a[1] - b[1] - bm, mid + bm * LimbBase, lo + bl * LimbBase>>

\* the exact product of a limb number and a natural number k <= 100
ExactMul(a, k) ==
    LET lo  == a[3] * k
        mid == a[2] * k + (lo \div LimbBase)
    IN  <<a[1] * k + (mid \div LimbBase), mid % LimbBase, lo % LimbBase>>

\* the quotient and the remainder of a limb number by a natural k <= 100
ExactDivMod(a, k) ==
    LET r1 == a[1] % k
        m  == r1 * LimbBase + a[2]
        r2 == m % k
        l  == r2 * LimbBase + a[3]
    IN  [quot |-> <<a[1] \div k, m \div k, l \div k>>, rem |-> l % k]

RECURSIVE BitLen(_)
\* the number of binary digits of a natural number
BitLen(x) == IF x = 0 THEN 0 ELSE 1 + BitLen(x \div 2)

\* the number of binary digits of a limb number
LimbBitLen(a) ==
    IF a[1] > 0 THEN 48 + BitLen(a[1])
    ELSE IF a[2] > 0 THEN 24 + BitLen(a[2])
    ELSE BitLen(a[3])

\* Round the exact value a (+ a positive fraction of a unit when sticky) to
\* 53 significant bits, to nearest, ties to even.  At most 19 bits are
\* dropped, all of them in the low limb.
FRound(a, sticky) ==
    LET k == LimbBitLen(a) - 53
    IN  IF k <= 0 THEN a
        ELSE LET r    == a[3] % (2^k)
                 half == 2^(k - 1)
                 down == <<a[1], a[2], a[3] - r>>
                 up   == ExactAdd(down, <<0, 0, 2^k>>)
                 odd  == (a[3] \div (2^k)) % 2 = 1
             IN  IF r > half \/ (r = half /\ (sticky \/ odd)) THEN up ELSE down

\* a + b, a - b (a >= b), a * 100 and 0.5 * a on floats
FAdd(a, b) == FRound(ExactAdd(a, b), FALSE)

FSub(a, b) == FRound(ExactSub(a, b), FALSE)

FMul100(a) == FRound(ExactMul(a, 100), FALSE)

FHalf(a) == ExactDivMod(a, 2).quot

\* n / 100 for a natural number n: Python's true division, correctly rounded
FDiv100(n) ==
    LET d == ExactDivMod(FInt(n), 100)
    IN  FRound(d.quot, d.rem # 0)


(***************************************************************************)
(* services/analyzer.py: the scorer, the threshold and analyze_message.    *)
(* Sub-scores and the sensitivity are integers, as the prompt asks of the  *)
(* classifier and as set_sensitivity stores them.                          *)
(***************************************************************************)

\* min(max(x / 100, 0), 1) for an integer x: x / 100 is negative exactly
\* when x is, and max(negative, 0) is 0
Normalize(x) ==
    IF x < 0 THEN FZero ELSE FMin(FMax(FDiv100(x), FZero), FOne)

\* OpenAIAnalyzer._calculate_violation_score
_calculate_violation_score(spam, toxic, danger) ==
    LET spam_norm   == Normalize(spam)
        toxic_norm  == Normalize(toxic)
        danger_norm == Normalize(danger)
        base_score  == FMax(FMax(toxic_norm, danger_norm), spam_norm)
        additional_impact ==
            FHalf(FSub(FAdd(FAdd(toxic_norm, danger_norm), spam_norm), base_score))
    IN  FMul100(FMin(FAdd(base_score, additional_impact), FOne))

\* the literal 1.01: the float nearest to 101/100
F1_01 == FDiv100(101)

\* the threshold with 1.00 in place of 1.01
threshold_no_offset(sensitivity) ==
    FMul100(FSub(FOne, FDiv100(sensitivity)))

\* the threshold with the sensitivity added to 0.01 instead of subtracted from 1.01
threshold_rising(sensitivity) ==
    FMul100(FAdd(FDiv100(1), FDiv100(sensitivity)))

\* sensitivity_threshold = (1.01 - sensitivity/100) * 100
sensitivity_threshold(sensitivity) ==
    FMul100(FSub(F1_01, FDiv100(sensitivity)))

\* the keys analyze_message reads from the classifier's JSON object
SubScoreKeys == {"spam", "toxic", "danger"}

\* the except branch of analyze_message ("Ошибка анализа")
FallbackResult ==
    [spam |-> 0, toxic |-> 0, danger |-> 0,
     violation_score |-> FZero, violation |-> FALSE,
     reason |-> "analysis error"]

\* analyze_message filling in the verdict only where the classifier sent none
analyze_keep_verdict(response, sensitivity) ==
    IF response.kind # "json" \/ ~(SubScoreKeys \subseteq DOMAIN response.body)
    THEN FallbackResult
    ELSE LET body  == response.body
             score == _calculate_violation_score(body.spam, body.toxic, body.danger)
         IN  [k \in DOMAIN body \cup {"violation_score", "violation"} |->
                 IF k \in DOMAIN body
                 THEN IF k = "violation_score" THEN FInt(body[k]) ELSE body[k]
                 ELSE IF k = "violation_score" THEN score
                      ELSE FLe(sensitivity_threshold(sensitivity), score)]

\* analyze_message failing closed: the fallback counts as a violation
analyze_fail_closed(response, sensitivity) ==
    IF response.kind # "json" \/ ~(SubScoreKeys \subseteq DOMAIN response.body)
    THEN [FallbackResult EXCEPT !.violation = TRUE]
    ELSE LET body  == response.body
             score == _calculate_violation_score(body.spam, body.toxic, body.danger)
         IN  [k \in DOMAIN body \cup {"violation_score", "violation"} |->
                 IF k = "violation_score" THEN score
                 ELSE IF k = "violation"
                      THEN FLe(sensitivity_threshold(sensitivity), score)
                      ELSE body[k]]

\* OpenAIAnalyzer.analyze_message, from the classifier's answer on.  The
\* answer is the API call raising ("exception"), content that json.loads
\* rejects ("malformed") or a JSON object ("json", body: key -> value).  A
\* missing sub-score key raises KeyError; every exception ends in the
\* fallback.  The object itself is returned, with violation_score and
\* violation stored over whatever the classifier sent.
analyze_message(response, sensitivity) ==
    IF response.kind # "json" \/ ~(SubScoreKeys \subseteq DOMAIN response.body)
    THEN FallbackResult
    ELSE LET body  == response.body
             score == _calculate_violation_score(body.spam, body.toxic, body.danger)
         IN  [k \in DOMAIN body \cup {"violation_score", "violation"} |->
                 IF k = "violation_score" THEN score
                 ELSE IF k = "violation"
                      THEN FLe(sensitivity_threshold(sensitivity), score)
                      ELSE body[k]]

(***************************************************************************)
(* Strings are sequences of one-character strings.  The Cyrillic literals  *)
(* of the source are written in Latin transliteration.                     *)
(***************************************************************************)
UpperLetters ==
    <<"A", "B", "C", "D", "E", "F", "G", "H", "I", "J", "K", "L", "M",
      "N", "O", "P", "Q", "R", "S", "T", "U", "V", "W", "X", "Y", "Z">>

LowerLetters ==
    <<"a", "b", "c", "d", "e", "f", "g", "h", "i", "j", "k", "l", "m",
      "n", "o", "p", "q", "r", "s", "t", "u", "v", "w", "x", "y", "z">>

\* str.lower() on one character
LowerChar(c) ==
    IF \E i \in 1..Len(UpperLetters) : UpperLetters[i] = c
    THEN LowerLetters[CHOOSE i \in 1..Len(UpperLetters) : UpperLetters[i] = c]
    ELSE c

\* str.lower()
lower(text) == [i \in 1..Len(text) |-> LowerChar(text[i])]

\* Python's `word in text` on strings
IsSubstring(word, text) ==
    \E i \in 0..(Len(text) - Len(word)) : SubSeq(text, i + 1, i + Len(word)) = word

(***************************************************************************)
(* bot/handlers.py: the rule filter.                                       *)
(***************************************************************************)

\* Handlers._check_ban_words:
\*   any(word in text.lower() for word in settings['ban_words'])
_check_ban_words(text, ban_words) ==
    \E i \in 1..Len(ban_words) : IsSubstring(ban_words[i], lower(text))

\* the rule result sent through the scorer and the threshold of the default
\* sensitivity instead of being fixed
ban_word_violation_scored ==
    LET score == _calculate_violation_score(90, 40, 70)
    IN  [spam |-> 90, toxic |-> 40, danger |-> 70,
         violation_score |-> score,
         violation |-> FLe(sensitivity_threshold(70), score),
         reason |-> "banned word"]

\* Handlers._create_ban_word_violation ("Запрещенное слово")
_create_ban_word_violation ==
    [spam |-> 90, toxic |-> 40, danger |-> 70,
     violation_score |-> FInt(90), violation |-> TRUE,
     reason |-> "banned word"]

(***************************************************************************)
(* data/manager.py: the store.                                             *)
(***************************************************************************)

\* 'реклама', 'купить', 'http://', 'telegram.me', 'оскорбление'
DefaultBanWords ==
    << <<"r", "e", "k", "l", "a", "m", "a">>,
       <<"k", "u", "p", "i", "t">>,
       <<"h", "t", "t", "p", ":", "/", "/">>,
       <<"t", "e", "l", "e", "g", "r", "a", "m", ".", "m", "e">>,
       <<"o", "s", "k", "o", "r", "b", "l", "e", "n", "i", "e">> >>

\* users: a function from the ids of the known users to their records
NoUsers == [id \in {} |-> 0]

\* DataManager._default_data
_default_data ==
    [settings |-> [sensitivity |-> 70,
                   ban_words |-> DefaultBanWords,
                   auto_delete |-> TRUE,
                   warn_before_ban |-> 3],
     users |-> NoUsers,
     stats |-> [messages_checked |-> 0,
                violations_found |-> 0,
                deleted_messages |-> 0,
                banned_users |-> 0]]

\* the document save_data writes: settings, users and stats under three keys
Document(st, us, sa) == [settings |-> st, users |-> us, stats |-> sa]

\* the exception handle_message caught (e of line 178), named after the
\* call that raised it; none so far
NoException == "none"

\* Python's None (a name Telegram did not send); no Telegram name is empty
None == ""

\* the decimal digits, in order
Digits == <<"0", "1", "2", "3", "4", "5", "6", "7", "8", "9">>

IsDigit(c) == \E i \in 1..10 : Digits[i] = c

DigitValue(c) == (CHOOSE i \in 1..10 : Digits[i] = c) - 1

RECURSIVE DecimalValue(_)
\* the number a non-empty string of digits denotes
DecimalValue(ds) ==
    IF Len(ds) = 0 THEN 0
    ELSE 10 * DecimalValue(SubSeq(ds, 1, Len(ds) - 1)) + DigitValue(ds[Len(ds)])

\* Python's int(text) for a string without white space or underscores: an
\* optional sign and at least one digit, anything else raises ValueError
int(text) ==
    LET signed == Len(text) > 0 /\ text[1] \in {"+", "-"}
        ds     == IF signed THEN Tail(text) ELSE text
    IN  IF Len(ds) > 0 /\ \A i \in 1..Len(ds) : IsDigit(ds[i])
        THEN [ok |-> TRUE,
              value |-> IF signed /\ text[1] = "-" THEN 0 - DecimalValue(ds)
                        ELSE DecimalValue(ds)]
        ELSE [ok |-> FALSE]

\* an int written with its last digit only
int_repr_last_digit(n) == <<Digits[(n % 10) + 1]>>

RECURSIVE int_repr(_)
\* the text json.dump writes for an int: its decimal digits, "-" first for
\* a negative one
int_repr(n) ==
    IF n < 0 THEN <<"-">> \o int_repr(0 - n)
    ELSE IF n < 10 THEN <<Digits[n + 1]>>
    ELSE Append(int_repr(n \div 10), Digits[(n % 10) + 1])

\* JSON text, as the tree of its values: the literals, a number with its
\* digits, a string with its characters, an array with its items in order,
\* an object with its members by key
JNull == [t |-> "null"]

JBool(b) == [t |-> IF b THEN "true" ELSE "false"]

JNumber(digits) == [t |-> "number", text |-> digits]

JString(chars) == [t |-> "string", text |-> chars]

JArray(items) == [t |-> "array", items |-> items]

JObject(members) == [t |-> "object", members |-> members]

\* json.dump of a name: None is written as null
dump_name(v) == IF v = None THEN JNull ELSE JString(v)

\* json.dump of the settings dictionary
dump_settings(st) ==
    JObject([k \in DOMAIN st |->
        CASE k = "ban_words" ->
                 JArray([i \in 1..Len(st[k]) |-> JString(st[k][i])])
          [] k = "auto_delete" -> JBool(st[k])
          [] OTHER -> JNumber(int_repr(st[k]))])

\* json.dump of the users dictionary: the keys are strings already
\* (str(user.id), line 160 of handlers.py)
dump_users(us) ==
    JObject([id \in DOMAIN us |->
        JObject([k \in DOMAIN us[id] |->
            IF k \in {"warnings", "messages"}
            THEN JNumber(int_repr(us[id][k]))
            ELSE dump_name(us[id][k])])])

\* json.dump of the stats dictionary
dump_stats(sa) == JObject([k \in DOMAIN sa |-> JNumber(int_repr(sa[k]))])

\* json.dump(data, f, ensure_ascii=False, indent=2) of a dictionary of
\* settings, users and stats
json_dump(data) ==
    JObject([k \in DOMAIN data |->
        CASE k = "settings" -> dump_settings(data[k])
          [] k = "users" -> dump_users(data[k])
          [] k = "stats" -> dump_stats(data[k])])

RECURSIVE json_load(_)
\* json.load: null is None, true and false the booleans, a number of
\* digits int() of them, a string its characters, an array a list, an
\* object a dictionary with strings as keys
json_load(j) ==
    CASE j.t = "null" -> None
      [] j.t = "true" -> TRUE
      [] j.t = "false" -> FALSE
      [] j.t = "number" -> int(j.text).value
      [] j.t = "string" -> j.text
      [] j.t = "array" -> [i \in 1..Len(j.items) |-> json_load(j.items[i])]
      [] j.t = "object" ->
             [k \in DOMAIN j.members |-> json_load(j.members[k])]

\* the state file: absent, not JSON ("corrupt": also a write cut short),
\* or JSON text ("json"); JsonFile(data) is the file json.dump(data) writes
MissingFile == [kind |-> "missing"]

CorruptFile == [kind |-> "corrupt"]

JsonFile(data) == [kind |-> "json", text |-> json_dump(data)]

\* DataManager._load_data: the store and the file after loading file f.  A
\* missing file is created from the defaults first; content that is not
\* JSON or lacks one of the three keys is replaced by the defaults and the
\* load repeated.  `key in data` (line 42) raises TypeError when the file
\* holds null, a number, true or false: the exception is not caught, the
\* file stays as it is and no store exists.  In a JSON string `in` looks
\* for a substring and in an array for an item: ValueError is raised
\* unless all three are found, and then data['settings'] raises TypeError.
_load_data(f) ==
    LET data == json_load(f.text)
        found ==
            CASE f.text.t = "object" ->
                     {"settings", "users", "stats"} \subseteq DOMAIN data
              [] f.text.t = "string" ->
                     \A key \in {<<"s", "e", "t", "t", "i", "n", "g", "s">>,
                                  <<"u", "s", "e", "r", "s">>,
                                  <<"s", "t", "a", "t", "s">>} :
                        IsSubstring(key, data)
              [] f.text.t = "array" ->
                     \A key \in {<<"s", "e", "t", "t", "i", "n", "g", "s">>,
                                  <<"u", "s", "e", "r", "s">>,
                                  <<"s", "t", "a", "t", "s">>} :
                        \E i \in 1..Len(data) : data[i] = key
    IN  IF f.kind # "json"
        THEN [raised |-> NoException, store |-> _default_data,
              file |-> JsonFile(_default_data)]
        ELSE IF \/ f.text.t \in {"null", "number", "true", "false"}
                \/ f.text.t \in {"string", "array"} /\ found
        THEN [raised |-> "TypeError", file |-> f]
        ELSE IF f.text.t = "object" /\ found
        THEN [raised |-> NoException,
              store |-> Document(data.settings, data.users, data.stats),
              file |-> f]
        ELSE [raised |-> NoException, store |-> _default_data,
              file |-> JsonFile(_default_data)]

(***************************************************************************)
(* State.                                                                  *)
(*   settings, users, stats  the DataManager's three dictionaries          *)
(*   file                    the content of user_data.json                 *)
(*   h                       the position and the locals of the update     *)
(*                           being handled (updates are handled one at a   *)
(*                           time: bot.py builds the Application with its  *)
(*                           default, sequential, update processing)       *)
(*   probe                   the arguments and the result of one call of a *)
(*                           pure function (the function specifications)   *)
(***************************************************************************)
VARIABLES settings, users, stats, file, h, probe

vars == <<settings, users, stats, file, h, probe>>

store_vars == <<settings, users, stats, file>>

\* the handler between two updates
IdleHandler == [pc |-> "idle", outcome |-> "none"]

\* no call of a pure function is under way
NoProbe == [op |-> "none"]

\* a result slot not yet filled
NoResult == [pending |-> TRUE]

\* the store of a fresh installation, no update under way
AtDefaults ==
    /\ settings = _default_data.settings
    /\ users = _default_data.users
    /\ stats = _default_data.stats
    /\ file = JsonFile(_default_data)
    /\ h = IdleHandler

\* a JSON object without the keys in `keys`
Drop(body, keys) == [k \in (DOMAIN body) \ keys |-> body[k]]

(***************************************************************************)
(* SpecScore: _calculate_violation_score on every triple of ScoreInputs.   *)
(***************************************************************************)
\* sub-scores a classifier can send: in range, at the ends, out of range
ScoreInputs == {-5, 0, 1, 5, 10, 20, 29, 100, 150}

InitScore ==
    /\ AtDefaults
    /\ probe \in [op : {"score"}, spam : ScoreInputs, toxic : ScoreInputs,
                  danger : ScoreInputs, done : {FALSE}, ret : {FZero}]

CalcScore ==
    /\ probe.op = "score" /\ ~probe.done
    /\ probe' = [probe EXCEPT
                   !.done = TRUE,
                   !.ret = _calculate_violation_score(probe.spam, probe.toxic,
                                                      probe.danger)]
    /\ UNCHANGED <<store_vars, h>>

NextScore == CalcScore

SpecScore == InitScore /\ [][NextScore]_vars

(***************************************************************************)
(* SpecAnalyze: analyze_message on every classifier answer of              *)
(* ProbeResponses at every sensitivity set_sensitivity accepts.            *)
(***************************************************************************)
MinSensitivity == 1

MaxSensitivity == 100

Sensitivities == MinSensitivity..MaxSensitivity

AnalyzeInputs == {-5, 0, 1, 20, 100, 150}

\* JSON objects with all six keys of the prompt's format
FullBodies ==
    { [spam |-> sp, toxic |-> to, danger |-> da,
       violation_score |-> v[1], violation |-> v[2], reason |-> "r"] :
        sp \in AnalyzeInputs, to \in AnalyzeInputs, da \in AnalyzeInputs,
        v \in {<<0, FALSE>>, <<100, TRUE>>} }

\* ... and with the verdict keys, one sub-score or the reason left out
ProbeBodies ==
    FullBodies
        \cup { Drop(b, {"violation_score", "violation"}) : b \in FullBodies }
        \cup { Drop(b, {k}) : b \in FullBodies,
                              k \in SubScoreKeys \cup {"reason"} }

ProbeResponses ==
    {[kind |-> "exception"], [kind |-> "malformed"]}
        \cup { [kind |-> "json", body |-> b] : b \in ProbeBodies }

InitAnalyze ==
    /\ AtDefaults
    /\ probe \in [op : {"analyze"}, response : ProbeResponses,
                  sensitivity : Sensitivities, done : {FALSE}, ret : {NoResult}]

Analyze ==
    /\ probe.op = "analyze" /\ ~probe.done
    /\ probe' = [probe EXCEPT
                   !.done = TRUE,
                   !.ret = analyze_message(probe.response, probe.sensitivity)]
    /\ UNCHANGED <<store_vars, h>>

NextAnalyze == Analyze

SpecAnalyze == InitAnalyze /\ [][NextAnalyze]_vars

(***************************************************************************)
(* SpecMonotone: analyze_message at every sensitivity on answers whose     *)
(* composites run through 0..100 (spam alone, and spam with a second       *)
(* sub-score that adds a half).                                            *)
(***************************************************************************)
MonotoneResponses ==
    { [kind |-> "json",
       body |-> [spam |-> sp, toxic |-> to, danger |-> 0, reason |-> "r"]] :
        sp \in 0..100, to \in {0, 1} }

InitMonotone ==
    /\ AtDefaults
    /\ probe \in [op : {"analyze"}, response : MonotoneResponses,
                  sensitivity : Sensitivities, done : {FALSE}, ret : {NoResult}]

SpecMonotone == InitMonotone /\ [][NextAnalyze]_vars

\* the threshold at every sensitivity
ThresholdOf == [s \in Sensitivities |-> sensitivity_threshold(s)]

(***************************************************************************)
(* Properties of the scorer and of the threshold.                          *)
(***************************************************************************)
Clamp(x) == IF x < 0 THEN 0 ELSE IF x > 100 THEN 100 ELSE x

Max3(a, b, c) ==
    IF a >= b /\ a >= c THEN a ELSE IF b >= c THEN b ELSE c

\* min(base + (s + t + d - base) / 2, 100) over the reals, for the clamped
\* sub-scores: always a multiple of 1/2, so exactly a float
ExactScore(spam, toxic, danger) ==
    LET sp    == Clamp(spam)
        to    == Clamp(toxic)
        da    == Clamp(danger)
        twice == Max3(sp, to, da) + sp + to + da
    IN  <<(IF twice > 200 THEN 200 ELSE twice) * 2^15, 0, 0>>

\* C1: for every spam, toxic and danger, also below 0 or above 100,
\* _calculate_violation_score returns min(base + 0.5*(s + t + d - base), 1)
\* * 100 for the clamped, normalised sub-scores; (10, 20, 5) gives 27.5.
C1_ScoreIsTheFormula ==
    probe.op = "score" /\ probe.done
        => probe.ret = ExactScore(probe.spam, probe.toxic, probe.danger)

\* C3: for sub-scores in [0,100] the composite lies between the largest
\* sub-score and 100, and the composite of (100, 100, 100) is 100.
C3_ScoreBetweenMaxAnd100 ==
    /\ probe.op = "score" /\ probe.done
    /\ {probe.spam, probe.toxic, probe.danger} \subseteq 0..100
    => /\ FLe(FInt(Max3(probe.spam, probe.toxic, probe.danger)), probe.ret)
       /\ FLe(probe.ret, FInt(100))
       /\ (probe.spam = 100 /\ probe.toxic = 100 /\ probe.danger = 100
              => probe.ret = FInt(100))

\* the classifier answered with a JSON object holding the three sub-scores
OnClassifierPath(p) ==
    /\ p.op = "analyze" /\ p.done
    /\ p.response.kind = "json"
    /\ SubScoreKeys \subseteq DOMAIN p.response.body

\* C2: on the classifier path, at every sensitivity in 1..100, violation
\* is true exactly when the composite is >= 101 - sensitivity.
C2_ViolationIffAtLeast101MinusSensitivity ==
    OnClassifierPath(probe)
        => (probe.ret.violation
              <=> FLe(FInt(101 - probe.sensitivity), probe.ret.violation_score))

\* C4: the composite of (0, 0, 0) is 0, the threshold is above 0 at every
\* sensitivity in 1..100, and a composite of 0 is never a violation.
C4_ZeroNeverViolates ==
    probe.op = "analyze" /\ probe.done
        => /\ FLt(FZero, sensitivity_threshold(probe.sensitivity))
           /\ probe.ret.violation_score = FZero => ~probe.ret.violation
           /\ /\ OnClassifierPath(probe)
              /\ probe.response.body.spam = 0
              /\ probe.response.body.toxic = 0
              /\ probe.response.body.danger = 0
              => probe.ret.violation_score = FZero

C4_Witness ==
    /\ OnClassifierPath(probe)
    /\ probe.response.body.spam = 0
    /\ probe.response.body.toxic = 0
    /\ probe.response.body.danger = 0
    /\ probe.sensitivity = MaxSensitivity
    /\ ~probe.ret.violation

\* C5: with the sub-scores fixed, a violation at sensitivity s1 is a
\* violation at every sensitivity s2 with s1 <= s2 <= 100; for sub-scores
\* outside the probes too, as the threshold never rises with the
\* sensitivity.
C5_MonotoneInSensitivity ==
    OnClassifierPath(probe)
        => \A s2 \in probe.sensitivity..MaxSensitivity :
              /\ FLe(ThresholdOf[s2], ThresholdOf[probe.sensitivity])
              /\ probe.ret.violation
                    => analyze_message(probe.response, s2).violation

C5_Witness ==
    /\ OnClassifierPath(probe)
    /\ probe.ret.violation
    /\ probe.sensitivity < MaxSensitivity
    /\ ~analyze_message(probe.response, MinSensitivity).violation

\* C9: in a result made from a classifier answer, violation_score is the
\* scorer's value for the answer's sub-scores and violation the threshold
\* comparison, whatever violation_score or violation the classifier sent.
C9_VerdictRecomputed ==
    OnClassifierPath(probe)
        => LET body  == probe.response.body
               score == _calculate_violation_score(body.spam, body.toxic,
                                                   body.danger)
           IN  /\ probe.ret.violation_score = score
               /\ probe.ret.violation
                    = FLe(sensitivity_threshold(probe.sensitivity), score)
               /\ \A k \in DOMAIN body \ {"violation_score", "violation"} :
                     probe.ret[k] = body[k]

C9_Witness ==
    /\ OnClassifierPath(probe)
    /\ "violation" \in DOMAIN probe.response.body
    /\ probe.response.body.violation
    /\ probe.response.body.violation_score = 100
    /\ ~probe.ret.violation
    /\ probe.ret.violation_score = FZero

(***************************************************************************)
(* SpecBanWords: _check_ban_words on short texts and short ban-word lists  *)
(* over an alphabet with one letter in both cases and one other letter.    *)
(* The list is whatever user_data.json holds: _load_data takes it as it is.*)
(***************************************************************************)
MaxTextLen == 3

MaxWordLen == 2

MaxBanWords == 2

ProbeChars == {"a", "A", "b"}

SeqsUpTo(S, n) == UNION { [1..k -> S] : k \in 0..n }

InitBanWords ==
    /\ AtDefaults
    /\ probe \in [op : {"check_ban_words"},
                  text : SeqsUpTo(ProbeChars, MaxTextLen),
                  ban_words : SeqsUpTo(SeqsUpTo(ProbeChars, MaxWordLen), MaxBanWords),
                  done : {FALSE}, ret : {FALSE}]

CheckBanWords ==
    /\ probe.op = "check_ban_words" /\ ~probe.done
    /\ probe' = [probe EXCEPT
                   !.done = TRUE,
                   !.ret = _check_ban_words(probe.text, probe.ban_words)]
    /\ UNCHANGED <<store_vars, h>>

NextBanWords == CheckBanWords

SpecBanWords == InitBanWords /\ [][NextBanWords]_vars

\* C6: for every text and every stored ban-word list, with entries of any
\* letter case, _check_ban_words is true exactly when some ban word is a
\* substring of the text when letter case is ignored.
C6_CaseInsensitiveSubstring ==
    probe.op = "check_ban_words" /\ probe.done
        => (probe.ret
              <=> \E i \in 1..Len(probe.ban_words) :
                     IsSubstring(lower(probe.ban_words[i]), lower(probe.text)))

(***************************************************************************)
(* Spec: the bot.  DataManager() loads user_data.json, then updates are    *)
(* handled one at a time.  handle_message is followed through its code     *)
(* positions (h.pc); each call of the Telegram API or of the classifier    *)
(* succeeds or raises, as the environment decides.                         *)
(***************************************************************************)
\* text messages accepted in one run
MaxMessages == 3

\* the senders: two people and a bot account
Senders ==
    { [id |-> "1001", username |-> "alice", first_name |-> "Alice",
       last_name |-> "A", is_bot |-> FALSE],
      [id |-> "1002", username |-> "bob", first_name |-> "Bob",
       last_name |-> "B", is_bot |-> FALSE],
      [id |-> "2001", username |-> "otherbot", first_name |-> "Other",
       last_name |-> "Bot", is_bot |-> TRUE] }

\* message texts: none (update.message.text is empty), "hi", "KUPIT", which
\* holds the default ban word 'купить' in upper case, and "http://kupit",
\* which holds two of the default ban words
NoText == <<>>

MessageTexts ==
    {NoText, <<"h", "i">>, <<"K", "U", "P", "I", "T">>,
     <<"h", "t", "t", "p", ":", "/", "/", "k", "u", "p", "i", "t">>}

Updates == [from_user : Senders, text : MessageTexts]

JsonBody(sp, to, da, vs, v) ==
    [spam |-> sp, toxic |-> to, danger |-> da,
     violation_score |-> vs, violation |-> v, reason |-> "r"]

\* what the classifier call can end in
Responses ==
    { [kind |-> "exception"],
      [kind |-> "malformed"],
      [kind |-> "json", body |-> JsonBody(0, 0, 0, 100, TRUE)],
      [kind |-> "json", body |-> JsonBody(10, 20, 5, 0, FALSE)],
      [kind |-> "json", body |-> JsonBody(100, 100, 100, 0, FALSE)],
      [kind |-> "json", body |-> JsonBody(150, 0, -5, 100, TRUE)],
      [kind |-> "json", body |-> Drop(JsonBody(100, 100, 100, 100, TRUE), {"spam"})],
      [kind |-> "json", body |-> Drop(JsonBody(100, 100, 100, 100, TRUE), {"reason"})] }

\* settings an operator may have put into user_data.json
StoredSettings ==
    [sensitivity : {MinSensitivity, MaxSensitivity},
     ban_words : {DefaultBanWords},
     auto_delete : BOOLEAN,
     warn_before_ban : {1, 2}]

\* what user_data.json can hold when the bot starts
InitialFiles ==
    {MissingFile, CorruptFile, JsonFile(Drop(_default_data, {"stats"}))}
        \cup { JsonFile(Document(st, _default_data.users, _default_data.stats)) :
                   st \in StoredSettings }

\* DataManager.__init__ (bot.py builds one DataManager and one Handlers)
Init ==
    /\ \E f \in InitialFiles :
          LET loaded == _load_data(f)
          IN  /\ settings = loaded.store.settings
              /\ users = loaded.store.users
              /\ stats = loaded.store.stats
              /\ file = loaded.file
    /\ h = IdleHandler
    /\ probe = NoProbe

\* the classifier was not called; no warning message was sent
NotCalled == [kind |-> "not called"]

NotSent == [sent |-> FALSE]

\* handle_message returns or lets an exception out: the handler is idle
Finish(outcome) == [pc |-> "idle", outcome |-> outcome]

\* _init_user_data with the first message already counted
_init_user_data_counted(us, user) ==
    [id \in DOMAIN us \cup {user.id} |->
        IF id = user.id
        THEN [username |-> user.username, first_name |-> user.first_name,
              last_name |-> user.last_name, warnings |-> 0, messages |-> 1]
        ELSE us[id]]

\* _init_user_data giving the new user a first warning
_init_user_data_warned(us, user) ==
    [id \in DOMAIN us \cup {user.id} |->
        IF id = user.id
        THEN [username |-> user.username, first_name |-> user.first_name,
              last_name |-> user.last_name, warnings |-> 1, messages |-> 0]
        ELSE us[id]]

\* Handlers._init_user_data
_init_user_data(us, user) ==
    [id \in DOMAIN us \cup {user.id} |->
        IF id = user.id
        THEN [username |-> user.username, first_name |-> user.first_name,
              last_name |-> user.last_name, warnings |-> 0, messages |-> 0]
        ELSE us[id]]

\* Handlers._update_user_stats
_update_user_stats(us, user_id) ==
    [us EXCEPT ![user_id].messages = @ + 1]

\* handle_message without the test of line 162: the record of a known user
\* is made anew
handle_message_always_init(update) ==
    /\ h.pc = "idle"
    /\ IF update.text = NoText
       THEN /\ h' = Finish("no text")
            /\ UNCHANGED <<users, stats>>
       ELSE IF update.from_user.is_bot
       THEN /\ h' = Finish("sender is bot")
            /\ UNCHANGED <<users, stats>>
       ELSE /\ stats.messages_checked < MaxMessages
            /\ users' = _update_user_stats(_init_user_data(users, update.from_user),
                                           update.from_user.id)
            /\ stats' = [stats EXCEPT !.messages_checked = @ + 1]
            /\ h' = [pc |-> "counted", outcome |-> "none",
                     user |-> update.from_user, text |-> update.text,
                     ban_word_violation |-> FALSE, response |-> NotCalled,
                     violation |-> NoResult, progress |-> NoResult,
                     warning_msg |-> NotSent, exc |-> NoException]
    /\ UNCHANGED <<settings, file, probe>>

\* handle_message without lines 156-158: a bot's message is handled like
\* anyone's
handle_message_from_anyone(update) ==
    /\ h.pc = "idle"
    /\ IF update.text = NoText
       THEN /\ h' = Finish("no text")
            /\ UNCHANGED <<users, stats>>
       ELSE /\ stats.messages_checked < MaxMessages
            /\ LET user_id == update.from_user.id
                   known   == IF user_id \in DOMAIN users THEN users
                              ELSE _init_user_data(users, update.from_user)
               IN  users' = _update_user_stats(known, user_id)
            /\ stats' = [stats EXCEPT !.messages_checked = @ + 1]
            /\ h' = [pc |-> "counted", outcome |-> "none",
                     user |-> update.from_user, text |-> update.text,
                     ban_word_violation |-> FALSE, response |-> NotCalled,
                     violation |-> NoResult, progress |-> NoResult,
                     warning_msg |-> NotSent, exc |-> NoException]
    /\ UNCHANGED <<settings, file, probe>>

\* handle_message without line 166: messages_checked is not raised
handle_message_uncounted(update) ==
    /\ h.pc = "idle"
    /\ update.text # NoText /\ ~update.from_user.is_bot
    /\ \A id \in DOMAIN users : users[id].messages < MaxMessages
    /\ LET user_id == update.from_user.id
           known   == IF user_id \in DOMAIN users THEN users
                      ELSE _init_user_data(users, update.from_user)
       IN  users' = _update_user_stats(known, user_id)
    /\ h' = [pc |-> "counted", outcome |-> "none",
             user |-> update.from_user, text |-> update.text,
             ban_word_violation |-> FALSE, response |-> NotCalled,
             violation |-> NoResult, progress |-> NoResult,
             warning_msg |-> NotSent, exc |-> NoException]
    /\ UNCHANGED <<settings, stats, file, probe>>

\* handle_message, lines 146-166: an update without text or from a bot is
\* dropped; otherwise the sender's record is created if missing and the
\* message is counted
handle_message(update) ==
    /\ h.pc = "idle"
    /\ IF update.text = NoText
       THEN /\ h' = Finish("no text")
            /\ UNCHANGED <<users, stats>>
       ELSE IF update.from_user.is_bot
       THEN /\ h' = Finish("sender is bot")
            /\ UNCHANGED <<users, stats>>
       ELSE /\ stats.messages_checked < MaxMessages
            /\ LET user_id == update.from_user.id
                   known   == IF user_id \in DOMAIN users THEN users
                              ELSE _init_user_data(users, update.from_user)
               IN  users' = _update_user_stats(known, user_id)
            /\ stats' = [stats EXCEPT !.messages_checked = @ + 1]
            /\ h' = [pc |-> "counted", outcome |-> "none",
                     user |-> update.from_user, text |-> update.text,
                     ban_word_violation |-> FALSE, response |-> NotCalled,
                     violation |-> NoResult, progress |-> NoResult,
                     warning_msg |-> NotSent, exc |-> NoException]
    /\ UNCHANGED <<settings, file, probe>>

\* handle_message, lines 168-171: the rule filter, and the classifier only
\* when the filter found nothing.  analyze_message holds no await: it runs
\* to its result in one step.
check_message ==
    /\ h.pc = "counted"
    /\ IF _check_ban_words(h.text, settings.ban_words)
       THEN h' = [h EXCEPT !.pc = "verdict",
                           !.ban_word_violation = TRUE,
                           !.violation = _create_ban_word_violation]
       ELSE \E response \in Responses :
               h' = [h EXCEPT !.pc = "verdict",
                              !.response = response,
                              !.violation = analyze_message(response,
                                                            settings.sensitivity)]
    /\ UNCHANGED <<store_vars, probe>>

\* _send_warning, lines 234-235: the "N/M" of the warning text, which is
\* formatted right after the increment, before send_message is awaited
Progress(us) ==
    [warnings |-> us[h.user.id].warnings,
     warn_before_ban |-> settings.warn_before_ban]

\* _process_violation without line 212: the violation is not counted
_process_violation_unrecorded ==
    /\ h.pc = "verdict"
    /\ IF h.violation.violation
       THEN /\ users' = [users EXCEPT ![h.user.id].warnings = @ + 1]
            /\ h' = [h EXCEPT !.pc = "warn", !.progress = Progress(users')]
            /\ UNCHANGED stats
       ELSE /\ h' = [h EXCEPT !.pc = "save"]
            /\ UNCHANGED <<users, stats>>
    /\ UNCHANGED <<settings, file, probe>>

\* _process_violation without line 214: the warning counter is not raised
_process_violation_uncounted ==
    /\ h.pc = "verdict"
    /\ IF h.violation.violation
       THEN /\ stats' = [stats EXCEPT !.violations_found = @ + 1]
            /\ h' = [h EXCEPT !.pc = "warn", !.progress = Progress(users)]
            /\ UNCHANGED users
       ELSE /\ h' = [h EXCEPT !.pc = "save"]
            /\ UNCHANGED <<users, stats>>
    /\ UNCHANGED <<settings, file, probe>>

\* handle_message, line 173, and _process_violation, lines 212-214: on a
\* violation the two counters are raised before the warning is sent
_process_violation ==
    /\ h.pc = "verdict"
    /\ IF h.violation.violation
       THEN /\ stats' = [stats EXCEPT !.violations_found = @ + 1]
            /\ users' = [users EXCEPT ![h.user.id].warnings = @ + 1]
            /\ h' = [h EXCEPT !.pc = "warn", !.progress = Progress(users')]
       ELSE /\ h' = [h EXCEPT !.pc = "save"]
            /\ UNCHANGED <<users, stats>>
    /\ UNCHANGED <<settings, file, probe>>

\* the keys _send_warning reads from the result
WarningKeys == {"reason", "violation_score", "spam", "toxic", "danger"}

\* _send_warning taking the increments of _process_violation back when
\* the warning cannot be delivered
_send_warning_rolling_back ==
    /\ h.pc = "warn"
    /\ h' = [h EXCEPT !.pc = "except", !.exc = "send_message (warning)"]
    /\ users' = [users EXCEPT ![h.user.id].warnings = @ - 1]
    /\ stats' = [stats EXCEPT !.violations_found = @ - 1]
    /\ UNCHANGED <<settings, file, probe>>

\* Handlers._send_warning: a result without one of the keys raises
\* KeyError; send_message delivers the warning or raises.  Then line 218.
_send_warning ==
    /\ h.pc = "warn"
    /\ IF ~(WarningKeys \subseteq DOMAIN h.violation)
       THEN h' = [h EXCEPT !.pc = "except", !.exc = "KeyError"]
       ELSE \E delivered \in BOOLEAN :
               IF delivered
               THEN h' = [h EXCEPT
                            !.pc = IF settings.auto_delete THEN "delete"
                                   ELSE "ban_check",
                            !.warning_msg =
                                [sent |-> TRUE,
                                 reason |-> h.violation.reason,
                                 violation_score |-> h.violation.violation_score,
                                 spam |-> h.violation.spam,
                                 toxic |-> h.violation.toxic,
                                 danger |-> h.violation.danger,
                                 warnings |-> h.progress.warnings,
                                 warn_before_ban |-> h.progress.warn_before_ban,
                                 annotated |-> FALSE]]
               ELSE h' = [h EXCEPT !.pc = "except", !.exc = "send_message (warning)"]
    /\ UNCHANGED <<store_vars, probe>>

\* _delete_violation_message counting the delete before it is awaited
_delete_counted_first ==
    /\ h.pc = "delete"
    /\ stats' = [stats EXCEPT !.deleted_messages = @ + 1]
    /\ \E deleted \in BOOLEAN :
          h' = [h EXCEPT !.pc = IF deleted THEN "ban_check" ELSE "annotate"]
    /\ UNCHANGED <<settings, users, file, probe>>

\* Handlers._delete_violation_message, lines 247-251: message.delete()
_delete_violation_message ==
    /\ h.pc = "delete"
    /\ \E deleted \in BOOLEAN :
          IF deleted
          THEN /\ stats' = [stats EXCEPT !.deleted_messages = @ + 1]
               /\ h' = [h EXCEPT !.pc = "ban_check"]
          ELSE /\ h' = [h EXCEPT !.pc = "annotate"]
               /\ UNCHANGED stats
    /\ UNCHANGED <<settings, users, file, probe>>

\* the annotation of the warning followed by another attempt to delete
annotate_warning_retrying ==
    /\ h.pc = "annotate"
    /\ h' = [h EXCEPT !.pc = "delete", !.warning_msg.annotated = TRUE]
    /\ UNCHANGED <<store_vars, probe>>

\* Handlers._delete_violation_message, lines 252-254: the failed delete is
\* noted on the warning; edit_text raising leaves the handler's try block
annotate_warning ==
    /\ h.pc = "annotate"
    /\ \E edited \in BOOLEAN :
          IF edited
          THEN h' = [h EXCEPT !.pc = "ban_check", !.warning_msg.annotated = TRUE]
          ELSE h' = [h EXCEPT !.pc = "except", !.exc = "edit_text"]
    /\ UNCHANGED <<store_vars, probe>>

\* line 221 with == for >=: the ban is tried once, at the limit
ban_check_at_limit ==
    /\ h.pc = "ban_check"
    /\ h' = [h EXCEPT !.pc = IF users[h.user.id].warnings = settings.warn_before_ban
                             THEN "ban" ELSE "save"]
    /\ UNCHANGED <<store_vars, probe>>

\* line 221 without warn_before_ban: any warning bans
ban_check_any_warning ==
    /\ h.pc = "ban_check"
    /\ h' = [h EXCEPT !.pc = IF users[h.user.id].warnings >= 1
                             THEN "ban" ELSE "save"]
    /\ UNCHANGED <<store_vars, probe>>

\* line 221 with > in place of >=
ban_check_above_limit ==
    /\ h.pc = "ban_check"
    /\ h' = [h EXCEPT !.pc = IF users[h.user.id].warnings > settings.warn_before_ban
                             THEN "ban" ELSE "save"]
    /\ UNCHANGED <<store_vars, probe>>

\* _process_violation, line 221
ban_check ==
    /\ h.pc = "ban_check"
    /\ h' = [h EXCEPT !.pc = IF users[h.user.id].warnings >= settings.warn_before_ban
                             THEN "ban" ELSE "save"]
    /\ UNCHANGED <<store_vars, probe>>

\* _ban_user swallowing a failed ban as _delete_violation_message swallows
\* a failed delete
_ban_user_swallowing ==
    /\ h.pc = "ban"
    /\ \E banned \in BOOLEAN :
          IF banned
          THEN /\ stats' = [stats EXCEPT !.banned_users = @ + 1]
               /\ h' = [h EXCEPT !.pc = "announce"]
          ELSE /\ h' = [h EXCEPT !.pc = "save"]
               /\ UNCHANGED stats
    /\ UNCHANGED <<settings, users, file, probe>>

\* Handlers._ban_user, lines 260-261 and 266-268: ban_chat_member
_ban_user ==
    /\ h.pc = "ban"
    /\ \E banned \in BOOLEAN :
          IF banned
          THEN /\ stats' = [stats EXCEPT !.banned_users = @ + 1]
               /\ h' = [h EXCEPT !.pc = "announce"]
          ELSE /\ h' = [h EXCEPT !.pc = "except", !.exc = "ban_chat_member"]
               /\ UNCHANGED stats
    /\ UNCHANGED <<settings, users, file, probe>>

\* Handlers._ban_user, lines 262-268: the announcement of the ban
announce_ban ==
    /\ h.pc = "announce"
    /\ \E delivered \in BOOLEAN :
          h' = IF delivered THEN [h EXCEPT !.pc = "save"]
               ELSE [h EXCEPT !.pc = "except", !.exc = "send_message (ban)"]
    /\ UNCHANGED <<store_vars, probe>>

\* save_data writing, for the sender, the warning count this handling
\* computed instead of the one in the store
save_data_own_count ==
    /\ h.pc = "save"
    /\ file' = JsonFile(Document(settings,
                                 [users EXCEPT ![h.user.id].warnings =
                                                   h.progress.warnings],
                                 stats))
    /\ h' = Finish("done")
    /\ UNCHANGED <<settings, users, stats, probe>>

\* DataManager.save_data, called at line 176 of handle_message: the
\* document is written, or open() fails and the file stays as it was, or
\* the write fails after open() has truncated the file; IOError is logged
\* and not raised
save_data ==
    /\ h.pc = "save"
    /\ \E written \in {"written", "open failed", "write failed"} :
          /\ file' = CASE written = "written" ->
                            JsonFile(Document(settings, users, stats))
                       [] written = "open failed" -> file
                       [] written = "write failed" -> CorruptFile
          /\ h' = Finish(IF written = "written" THEN "done" ELSE "save failed")
    /\ UNCHANGED <<settings, users, stats, probe>>

\* handle_message's except branch logging the error and posting nothing
except_handler_silent ==
    /\ h.pc = "except"
    /\ h' = Finish("done")
    /\ UNCHANGED <<store_vars, probe>>

\* handle_message, lines 178-181: the generic notice; reply_text raising
\* lets the exception out of handle_message, and the Application hands it
\* to the error handler bot.py registered
except_handler ==
    /\ h.pc = "except"
    /\ \E replied \in BOOLEAN :
          h' = IF replied THEN Finish("failure notice")
               ELSE [h EXCEPT !.pc = "error_handler"]
    /\ UNCHANGED <<store_vars, probe>>

\* Handlers.error_handler: a second notice; the Application logs whatever
\* the error handler itself raises
error_handler ==
    /\ h.pc = "error_handler"
    /\ \E replied \in BOOLEAN :
          h' = Finish(IF replied THEN "error notice" ELSE "raised")
    /\ UNCHANGED <<store_vars, probe>>

Next ==
    \/ \E update \in Updates : handle_message(update)
    \/ check_message
    \/ _process_violation
    \/ _send_warning
    \/ _delete_violation_message
    \/ annotate_warning
    \/ ban_check
    \/ _ban_user
    \/ announce_ban
    \/ save_data
    \/ except_handler
    \/ error_handler

Spec == Init /\ [][Next]_vars

\* a handling under way takes its next step: every call it awaits returns
\* or raises, and the event loop resumes the coroutine
Continue ==
    \/ check_message
    \/ _process_violation
    \/ _send_warning
    \/ _delete_violation_message
    \/ annotate_warning
    \/ ban_check
    \/ _ban_user
    \/ announce_ban
    \/ save_data
    \/ except_handler
    \/ error_handler

\* the files of the fair runs: the defaults, and a ban at the first
\* warning with auto_delete on or off
FairFiles ==
    {JsonFile(_default_data)}
        \cup { JsonFile(Document(st, _default_data.users, _default_data.stats)) :
                   st \in { x \in StoredSettings :
                              /\ x.sensitivity = MaxSensitivity
                              /\ x.warn_before_ban = 1 } }

InitFair ==
    /\ \E f \in FairFiles :
          LET loaded == _load_data(f)
          IN  /\ settings = loaded.store.settings
              /\ users = loaded.store.users
              /\ stats = loaded.store.stats
              /\ file = loaded.file
    /\ h = IdleHandler
    /\ probe = NoProbe

\* the updates of the fair runs: the messages of one person and of the bot
FairUpdates == { u \in Updates : u.from_user.id # "1002" }

NextFair ==
    \/ \E update \in FairUpdates : handle_message(update)
    \/ Continue

\* the runs in which every external call returns or fails in the end
SpecFair == InitFair /\ [][NextFair]_vars /\ WF_vars(Continue)

(***************************************************************************)
(* SpecRestart: the bot restarted on the file of an earlier run, at every  *)
(* sensitivity; one more text message is accepted.                         *)
(***************************************************************************)
EarlierUsers ==
    [id \in {"1001"} |->
        [username |-> "alice", first_name |-> "Alice", last_name |-> "A",
         warnings |-> 1, messages |-> MaxMessages - 1]]

EarlierStats ==
    [messages_checked |-> MaxMessages - 1, violations_found |-> 1,
     deleted_messages |-> 1, banned_users |-> 0]

RestartFiles ==
    { JsonFile(Document([sensitivity |-> s, ban_words |-> DefaultBanWords,
                         auto_delete |-> a, warn_before_ban |-> w],
                        EarlierUsers, EarlierStats)) :
        s \in Sensitivities, a \in BOOLEAN, w \in {2, 3} }

InitRestart ==
    /\ \E f \in RestartFiles :
          LET loaded == _load_data(f)
          IN  /\ settings = loaded.store.settings
              /\ users = loaded.store.users
              /\ stats = loaded.store.stats
              /\ file = loaded.file
    /\ h = IdleHandler
    /\ probe = NoProbe

SpecRestart == InitRestart /\ [][Next]_vars

(***************************************************************************)
(* SpecInterleaved: two handlings of handle_message in flight, as when the *)
(* Application runs its handlers concurrently.  A coroutine gives up the   *)
(* event loop only where it awaits a call of the Telegram API; the         *)
(* classifier call is synchronous and analyze_message awaits nothing.  h   *)
(* is the handling that runs, probe holds the suspended one.               *)
(***************************************************************************)
\* the positions at which a handling waits for a call of the Telegram API
AwaitPoints ==
    {"warn", "delete", "annotate", "ban", "announce", "except", "error_handler"}

Suspended(task) == [op |-> "suspended", task |-> task]

\* the files of the interleaved runs: the defaults, and the defaults with
\* warn_before_ban = 2 and auto_delete on or off
InterleavedFiles ==
    {JsonFile(_default_data)}
        \cup { JsonFile(Document([_default_data.settings EXCEPT
                                    !.auto_delete = a, !.warn_before_ban = 2],
                                 _default_data.users, _default_data.stats)) :
                   a \in BOOLEAN }

InitInterleaved ==
    /\ \E f \in InterleavedFiles :
          LET loaded == _load_data(f)
          IN  /\ settings = loaded.store.settings
              /\ users = loaded.store.users
              /\ stats = loaded.store.stats
              /\ file = loaded.file
    /\ h = IdleHandler
    /\ probe = Suspended(IdleHandler)

\* the event loop: the running handling waits at an await or has returned,
\* and the other one is resumed (or, if it is idle, takes the next update)
switch_task ==
    /\ probe.op = "suspended"
    /\ h.pc \in AwaitPoints \cup {"idle"}
    /\ h.pc # "idle" \/ probe.task.pc # "idle"
    /\ h' = probe.task
    /\ probe' = Suspended(h)
    /\ UNCHANGED store_vars

\* the updates of the interleaved runs: messages of the two people, each
\* holding a ban word
InterleavedUpdates ==
    { u \in Updates : ~u.from_user.is_bot /\ u.text = <<"K", "U", "P", "I", "T">> }

NextInterleaved ==
    \/ \E update \in InterleavedUpdates : handle_message(update)
    \/ check_message
    \/ _process_violation
    \/ _send_warning
    \/ _delete_violation_message
    \/ annotate_warning
    \/ ban_check
    \/ _ban_user
    \/ announce_ban
    \/ save_data
    \/ except_handler
    \/ error_handler
    \/ switch_task

SpecInterleaved == InitInterleaved /\ [][NextInterleaved]_vars

(***************************************************************************)
(* The command handlers that change the settings, and SpecCommands: the    *)
(* bot started on the defaults, taking commands between the messages.      *)
(* context.args is the command's text split at white space: a sequence of  *)
(* non-empty strings without white space.                                  *)
(***************************************************************************)
RECURSIVE join(_)
\* ' '.join(args)
join(args) ==
    IF Len(args) = 0 THEN <<>>
    ELSE IF Len(args) = 1 THEN args[1]
    ELSE args[1] \o <<" ">> \o join(Tail(args))

\* word in ban_words
Contains(ban_words, word) == \E i \in 1..Len(ban_words) : ban_words[i] = word

\* list.remove(word): the list without the first entry equal to word
Remove(ban_words, word) ==
    LET first == CHOOSE i \in 1..Len(ban_words) :
                    /\ ban_words[i] = word
                    /\ \A j \in 1..(i - 1) : ban_words[j] # word
    IN  SubSeq(ban_words, 1, first - 1) \o SubSeq(ban_words, first + 1, Len(ban_words))

\* a command handler has answered (answer: what its reply says), or its
\* reply_text raised, which the Application hands to error_handler
Answered(command, args, answer, replied) ==
    [pc |-> IF replied THEN "idle" ELSE "error_handler",
     outcome |-> answer, command |-> command, args |-> args,
     exc |-> IF replied THEN NoException ELSE "reply_text"]

\* the file after save_data was called on the store <<st, us, sa>>
Saved(st, us, sa, written) ==
    CASE written = "written" -> JsonFile(Document(st, us, sa))
      [] written = "open failed" -> file
      [] written = "write failed" -> CorruptFile

SaveOutcomes == {"written", "open failed", "write failed"}

\* set_sensitivity storing whatever number it is given
set_sensitivity_unchecked(args) ==
    /\ h.pc = "idle"
    /\ \E replied \in BOOLEAN :
          IF Len(args) = 0
          THEN /\ h' = Answered("set_sensitivity", args, "usage", replied)
               /\ UNCHANGED <<settings, file>>
          ELSE LET level == int(args[1])
               IN  IF level.ok
                   THEN /\ settings' = [settings EXCEPT !.sensitivity = level.value]
                        /\ \E written \in SaveOutcomes :
                              file' = Saved(settings', users, stats, written)
                        /\ h' = Answered("set_sensitivity", args, "set", replied)
                   ELSE /\ h' = Answered("set_sensitivity", args,
                                         "not a number", replied)
                        /\ UNCHANGED <<settings, file>>
    /\ UNCHANGED <<users, stats, probe>>

\* Handlers.set_sensitivity
set_sensitivity(args) ==
    /\ h.pc = "idle"
    /\ \E replied \in BOOLEAN :
          IF Len(args) = 0
          THEN /\ h' = Answered("set_sensitivity", args, "usage", replied)
               /\ UNCHANGED <<settings, file>>
          ELSE LET level == int(args[1])
               IN  IF ~level.ok
                   THEN /\ h' = Answered("set_sensitivity", args,
                                         "not a number", replied)
                        /\ UNCHANGED <<settings, file>>
                   ELSE IF 1 <= level.value /\ level.value <= 100
                   THEN /\ settings' = [settings EXCEPT !.sensitivity = level.value]
                        /\ \E written \in SaveOutcomes :
                              file' = Saved(settings', users, stats, written)
                        /\ h' = Answered("set_sensitivity", args, "set", replied)
                   ELSE /\ h' = Answered("set_sensitivity", args,
                                         "out of range", replied)
                        /\ UNCHANGED <<settings, file>>
    /\ UNCHANGED <<users, stats, probe>>

\* add_ban_word appending without looking for the word in the list
add_ban_word_unchecked(args) ==
    /\ h.pc = "idle"
    /\ Len(args) > 0
    /\ settings' = [settings EXCEPT !.ban_words = Append(@, lower(join(args)))]
    /\ file' = Saved(settings', users, stats, "written")
    /\ h' = Answered("add_ban_word", args, "added", TRUE)
    /\ UNCHANGED <<users, stats, probe>>

\* Handlers.add_ban_word
add_ban_word(args) ==
    /\ h.pc = "idle"
    /\ \E replied \in BOOLEAN :
          IF Len(args) = 0
          THEN /\ h' = Answered("add_ban_word", args, "usage", replied)
               /\ UNCHANGED <<settings, file>>
          ELSE LET word == lower(join(args))
               IN  IF Contains(settings.ban_words, word)
                   THEN /\ h' = Answered("add_ban_word", args, "already listed",
                                         replied)
                        /\ UNCHANGED <<settings, file>>
                   ELSE /\ settings' = [settings EXCEPT
                                          !.ban_words = Append(@, word)]
                        /\ \E written \in SaveOutcomes :
                              file' = Saved(settings', users, stats, written)
                        /\ h' = Answered("add_ban_word", args, "added", replied)
    /\ UNCHANGED <<users, stats, probe>>

\* Handlers.remove_ban_word
remove_ban_word(args) ==
    /\ h.pc = "idle"
    /\ \E replied \in BOOLEAN :
          IF Len(args) = 0
          THEN /\ h' = Answered("remove_ban_word", args, "usage", replied)
               /\ UNCHANGED <<settings, file>>
          ELSE LET word == lower(join(args))
               IN  IF ~Contains(settings.ban_words, word)
                   THEN /\ h' = Answered("remove_ban_word", args, "not listed",
                                         replied)
                        /\ UNCHANGED <<settings, file>>
                   ELSE /\ settings' = [settings EXCEPT
                                          !.ban_words = Remove(@, word)]
                        /\ \E written \in SaveOutcomes :
                              file' = Saved(settings', users, stats, written)
                        /\ h' = Answered("remove_ban_word", args, "removed",
                                         replied)
    /\ UNCHANGED <<users, stats, probe>>

\* arguments of /set_sensitivity: none, numbers in and out of range, and
\* strings int() rejects
SensitivityArgs ==
    { <<>>,
      << <<"1">> >>, << <<"1", "0", "0">> >>, << <<"+", "1">>, <<"9">> >>,
      << <<"0">> >>, << <<"1", "0", "1">> >>, << <<"-", "5">> >>,
      << <<"5", "0", "%">> >> }

\* arguments of /add_ban_word and /remove_ban_word: none, and a new word
\* in capitals
BanWordArgs ==
    { <<>>, << <<"H", "I">> >> }

\* the messages of the runs with commands: one sender and one text, which
\* goes to the classifier until /add_ban_word HI makes it hold a ban word
CommandUpdates ==
    { u \in Updates : u.from_user.username = "alice" /\ u.text = <<"h", "i">> }

\* the bot was started on the defaults and has handled and saved one
\* message of the sender, a violation: warned and deleted
InitCommands ==
    /\ settings = _default_data.settings
    /\ users = [id \in {"1001"} |->
                  [username |-> "alice", first_name |-> "Alice",
                   last_name |-> "A", warnings |-> 1, messages |-> 1]]
    /\ stats = [messages_checked |-> 1, violations_found |-> 1,
                deleted_messages |-> 1, banned_users |-> 0]
    /\ file = JsonFile(Document(settings, users, stats))
    /\ h = IdleHandler
    /\ probe = NoProbe

NextCommands ==
    \/ \E update \in CommandUpdates : handle_message(update)
    \/ check_message
    \/ _process_violation
    \/ _send_warning
    \/ _delete_violation_message
    \/ annotate_warning
    \/ ban_check
    \/ _ban_user
    \/ announce_ban
    \/ save_data
    \/ except_handler
    \/ error_handler
    \/ \E args \in SensitivityArgs : set_sensitivity(args)
    \/ \E args \in BanWordArgs : add_ban_word(args)
    \/ \E args \in BanWordArgs : remove_ban_word(args)

SpecCommands == InitCommands /\ [][NextCommands]_vars

(***************************************************************************)
(* SpecBanList: /add_ban_word and /remove_ban_word in any order on the     *)
(* default list.                                                           *)
(***************************************************************************)
\* arguments of the two commands: none, a new word in capitals, in small
\* letters, two words in mixed case, and a word of the default list
BanListArgs ==
    { <<>>,
      << <<"H", "I">> >>,
      << <<"h", "i">> >>,
      << <<"H", "i">>, <<"Y", "o">> >>,
      << <<"K", "U", "P", "I", "T">> >> }

InitBanList ==
    /\ AtDefaults
    /\ probe = NoProbe

NextBanList ==
    \/ \E args \in BanListArgs : add_ban_word(args)
    \/ \E args \in BanListArgs : remove_ban_word(args)
    \/ error_handler

SpecBanList == InitBanList /\ [][NextBanList]_vars

(***************************************************************************)
(* SpecRoundTrip: save_data on a store, _load_data on the file written,    *)
(* save_data on the store loaded.                                          *)
(***************************************************************************)
RoundTripSettings ==
    [sensitivity : {MinSensitivity, 70, MaxSensitivity},
     ban_words : {<<>>, DefaultBanWords, Append(DefaultBanWords, <<"h", "i">>)},
     auto_delete : BOOLEAN,
     warn_before_ban : {1, 3, 10}]

\* nobody; alice; a user without username and last name; both
RoundTripUsers ==
    LET alice == [username |-> "alice", first_name |-> "Alice",
                  last_name |-> "A", warnings |-> 2, messages |-> 120]
        carol == [username |-> None, first_name |-> "Carol",
                  last_name |-> None, warnings |-> 0, messages |-> 1]
    IN  { NoUsers,
          [id \in {"1001"} |-> alice],
          [id \in {"1003"} |-> carol],
          [id \in {"1001", "1003"} |-> IF id = "1001" THEN alice ELSE carol] }

RoundTripStats ==
    { _default_data.stats,
      [messages_checked |-> 121, violations_found |-> 2,
       deleted_messages |-> 1, banned_users |-> 0],
      [messages_checked |-> 1005, violations_found |-> 230,
       deleted_messages |-> 99, banned_users |-> 10] }

InitRoundTrip ==
    /\ AtDefaults
    /\ probe \in [op : {"round trip"}, step : {"store"},
                  settings : RoundTripSettings, users : RoundTripUsers,
                  stats : RoundTripStats, file : {MissingFile},
                  loaded : {NoResult}, again : {MissingFile}]

\* save_data, the write succeeding
SaveStore ==
    /\ probe.op = "round trip" /\ probe.step = "store"
    /\ probe' = [probe EXCEPT
                   !.step = "saved",
                   !.file = Saved(probe.settings, probe.users, probe.stats,
                                  "written")]
    /\ UNCHANGED <<store_vars, h>>

\* _load_data on the file saved
LoadSaved ==
    /\ probe.op = "round trip" /\ probe.step = "saved"
    /\ probe' = [probe EXCEPT !.step = "loaded",
                               !.loaded = _load_data(probe.file)]
    /\ UNCHANGED <<store_vars, h>>

\* save_data on the store loaded
SaveLoaded ==
    /\ probe.op = "round trip" /\ probe.step = "loaded"
    /\ probe' = [probe EXCEPT
                   !.step = "saved again",
                   !.again = Saved(probe.loaded.store.settings,
                                   probe.loaded.store.users,
                                   probe.loaded.store.stats, "written")]
    /\ UNCHANGED <<store_vars, h>>

NextRoundTrip == SaveStore \/ LoadSaved \/ SaveLoaded

SpecRoundTrip == InitRoundTrip /\ [][NextRoundTrip]_vars

(***************************************************************************)
(* SpecLoad: DataManager.__init__ on every file of LoadFiles.              *)
(***************************************************************************)
\* documents an earlier run saved
LoadDocuments ==
    { Document(st, us, _default_data.stats) :
        st \in StoredSettings, us \in {NoUsers, EarlierUsers} }
        \cup {Document(_default_data.settings, EarlierUsers, EarlierStats)}

\* no file, a file that is not JSON, the saved documents with any of the
\* three keys taken out, and JSON that is no object: null, 5, true, false,
\* "stats", [] and ["settings", "users", "stats"]
LoadFiles ==
    {MissingFile, CorruptFile}
        \cup { JsonFile(Drop(doc, keys)) :
                   doc \in LoadDocuments,
                   keys \in SUBSET {"settings", "users", "stats"} }
        \cup { [kind |-> "json", text |-> j] :
                   j \in { JNull, JNumber(<<"5">>), JBool(TRUE), JBool(FALSE),
                           JString(<<"s", "t", "a", "t", "s">>),
                           JArray(<<>>),
                           JArray(<< JString(<<"s", "e", "t", "t", "i", "n", "g", "s">>),
                                     JString(<<"u", "s", "e", "r", "s">>),
                                     JString(<<"s", "t", "a", "t", "s">>) >>) } }

InitLoad ==
    /\ AtDefaults
    /\ probe \in [op : {"load"}, file : LoadFiles, done : {FALSE},
                  ret : {NoResult}]

Load ==
    /\ probe.op = "load" /\ ~probe.done
    /\ probe' = [probe EXCEPT !.done = TRUE, !.ret = _load_data(probe.file)]
    /\ UNCHANGED <<store_vars, h>>

NextLoad == Load

SpecLoad == InitLoad /\ [][NextLoad]_vars

(***************************************************************************)
(* Properties of the message pipeline.                                     *)
(***************************************************************************)
\* handle_message holds a result: it is past lines 168-171
HasResult == h.pc \notin {"idle", "counted"}

\* C7: when the rule filter matches, handle_message uses the fixed result
\* spam=90, toxic=40, danger=70, violation_score=90, violation=true and
\* calls neither the classifier nor the scorer, at every sensitivity in
\* 1..100 and however many ban words matched; the message is enforced as a
\* violation.
C7_RuleMatchGivesFixedViolation ==
    HasResult /\ _check_ban_words(h.text, settings.ban_words)
        => /\ h.violation = [spam |-> 90, toxic |-> 40, danger |-> 70,
                             violation_score |-> FInt(90), violation |-> TRUE,
                             reason |-> "banned word"]
           /\ h.response = NotCalled
           /\ h.pc = "save" => h.warning_msg.sent

\* a message with two ban words was warned about at sensitivity 1, where
\* the threshold (100) is above the fixed score
C7_Witness ==
    /\ h.pc = "save"
    /\ IsSubstring(DefaultBanWords[2], lower(h.text))
    /\ IsSubstring(DefaultBanWords[3], lower(h.text))
    /\ settings.sensitivity = MinSensitivity
    /\ h.warning_msg.sent
    /\ h.violation.violation_score = FInt(90)

\* the classifier call raised, or its answer is not JSON or lacks a sub-score
ClassifierFailed(response) ==
    \/ response.kind \in {"exception", "malformed"}
    \/ response.kind = "json" /\ ~(SubScoreKeys \subseteq DOMAIN response.body)

\* the message being handled went to the classifier, which failed
FailedOpen == h.pc # "idle" /\ ClassifierFailed(h.response)

\* what C8 says of every step but the save: the result is the zero result,
\* no exception reaches handle_message, nothing is enforced and nothing
\* counted is taken back
FailOpenStep ==
    /\ h.violation = [spam |-> 0, toxic |-> 0, danger |-> 0,
                      violation_score |-> FZero, violation |-> FALSE,
                      reason |-> "analysis error"]
    /\ h.pc \in {"verdict", "save"}
    /\ h.warning_msg = NotSent
    /\ users[h.user.id].messages >= 1 /\ stats.messages_checked >= 1
    /\ UNCHANGED <<settings, users, stats>>
    /\ h.pc = "verdict" => h'.pc = "save" /\ file' = file
    /\ h.pc = "save" => h' \in {Finish("done"), Finish("save failed")}

\* C8 as claimed: whenever the classifier call fails or returns malformed
\* JSON or an answer without spam, toxic or danger, analyze_message returns
\* the zero result and raises nothing; the message triggers no warning,
\* delete or ban, and its counters, already incremented, are persisted.
C8_FailOpenAndPersisted ==
    [][FailedOpen
         => /\ FailOpenStep
            /\ h.pc = "save"
                 => file' = JsonFile(Document(settings, users, stats))]_vars

\* C8 as amended: ... and save_data is called with the incremented
\* counters: they are persisted unless the write of the state file fails
\* (the file then keeps its old content or is left cut short).
C8_FailOpenAndSaved ==
    [][FailedOpen
         => /\ FailOpenStep
            /\ h.pc = "save"
                 => file' \in {JsonFile(Document(settings, users, stats)),
                               file, CorruptFile}]_vars

C8_Witness ==
    /\ h.pc = "save"
    /\ ClassifierFailed(h.response)
    /\ h.response.kind = "json"
    /\ h.violation.violation_score = FZero /\ ~h.violation.violation
    /\ users[h.user.id].messages = 1
    /\ file # JsonFile(Document(settings, users, stats))

\* C10: every result handle_message acts on, from the rule filter, the
\* classifier or the fallback, has spam, toxic and danger in [0,100] and
\* violation_score in [0,100], also for out-of-range classifier sub-scores.
C10_ResultInRange ==
    HasResult
        => /\ \A k \in SubScoreKeys : h.violation[k] \in 0..100
           /\ FLe(FZero, h.violation.violation_score)
           /\ FLe(h.violation.violation_score, FInt(100))

(***************************************************************************)
(* Properties of the enforcement steps.                                    *)
(***************************************************************************)
\* C11: on every violation _process_violation raises the user's warnings
\* by exactly 1 and violations_found by exactly 1 before the warning is
\* sent (no other step of the handler changes either), and the warning
\* sent shows N/M with N the raised warning count and M warn_before_ban.
C11_CountedThenWarned ==
    [][/\ h.pc = "verdict" /\ h.violation.violation
            => /\ users'[h.user.id].warnings = users[h.user.id].warnings + 1
               /\ stats'.violations_found = stats.violations_found + 1
               /\ h.warning_msg = NotSent /\ h'.warning_msg = NotSent
               /\ h'.pc = "warn"
       /\ h.pc = "warn" /\ h'.warning_msg # NotSent
            => /\ h'.warning_msg.sent
               /\ h'.warning_msg.warnings = users[h.user.id].warnings
               /\ h'.warning_msg.warn_before_ban = settings.warn_before_ban
       /\ ~(h.pc = "verdict" /\ h.violation.violation)
            => /\ stats'.violations_found = stats.violations_found
               /\ \A id \in DOMAIN users :
                     users'[id].warnings = users[id].warnings
               /\ \A id \in DOMAIN users' \ DOMAIN users :
                     users'[id].warnings = 0]_vars

\* the second violation of a user under the default warn_before_ban: the
\* warning shows 2/3
C11_Witness ==
    /\ h.pc \in {"delete", "ban_check"}
    /\ h.warning_msg.sent
    /\ h.warning_msg.warnings = 2 /\ h.warning_msg.warn_before_ban = 3
    /\ users[h.user.id].warnings = 2
    /\ stats.violations_found = 2

\* what C12 says of the delete itself: it is attempted only with
\* auto_delete on and the warning sent, once per message, and
\* deleted_messages goes up by 1 exactly on the step where it succeeds
DeleteStep ==
    /\ h.pc = "delete" => settings.auto_delete /\ h.warning_msg.sent
    /\ h'.pc = "delete" => h.pc = "warn"
    /\ h.pc = "delete" => h'.pc \in {"ban_check", "annotate"}
    /\ IF h.pc = "delete" /\ h'.pc = "ban_check"
       THEN stats'.deleted_messages = stats.deleted_messages + 1
       ELSE stats'.deleted_messages = stats.deleted_messages
    /\ h.pc = "annotate" => h.warning_msg.sent /\ ~h.warning_msg.annotated

\* C12 as claimed: the delete is attempted only when auto_delete is true
\* and only after the warning was sent; deleted_messages is incremented by
\* 1 exactly when the delete succeeded; a failed delete is not retried but
\* adds a deletion-failed annotation to the warning already sent.
C12_DeleteOnceAndAnnotate ==
    [][/\ DeleteStep
       /\ h.pc = "annotate" => h'.pc = "ban_check" /\ h'.warning_msg.annotated]_vars

\* C12 as amended: ... a failed delete is not retried; the annotation is
\* added to the warning unless the edit of the warning raises, and then
\* the warning stays as it was sent.
C12_DeleteOnceAndTryToAnnotate ==
    [][/\ DeleteStep
       /\ h.pc = "annotate"
            => \/ h'.pc = "ban_check" /\ h'.warning_msg.annotated
               \/ /\ h'.pc = "except"
                  /\ h'.warning_msg = h.warning_msg]_vars

\* after one delete that succeeded, a delete failed and the warning of
\* that message carries the annotation
C12_Witness ==
    /\ h.pc = "ban_check"
    /\ settings.auto_delete
    /\ h.warning_msg.sent /\ h.warning_msg.annotated
    /\ stats.deleted_messages = 1
    /\ stats.violations_found = 2

\* C13: in every cycle where auto_delete is true and the delete fails, the
\* ban check is still evaluated in that cycle: neither the failed delete
\* nor the annotation of the warning that follows it, whatever its
\* outcome, takes the handler anywhere but on to the ban check.
C13_FailedDeleteReachesBanCheck ==
    [][/\ h.pc = "delete" => h'.pc \in {"ban_check", "annotate"}
       /\ h.pc = "annotate" => settings.auto_delete /\ h'.pc = "ban_check"]_vars

\* C14: in a cycle that reaches the ban check, the ban is attempted exactly
\* when the warning count this cycle raised (the N of its warning) is >=
\* warn_before_ban; banned_users goes up by 1 on the step where the ban
\* call succeeds and on no other; a ban is attempted only for a violation.
C14_BanExactlyAtLimit ==
    [][/\ h.pc = "ban_check"
            => /\ h.warning_msg.sent
               /\ h.warning_msg.warnings = users[h.user.id].warnings
               /\ h'.pc = IF h.warning_msg.warnings >= settings.warn_before_ban
                          THEN "ban" ELSE "save"
       /\ h'.pc = "ban" => h.pc = "ban_check"
       /\ h.pc = "ban" => h.violation.violation /\ h'.pc \in {"announce", "except"}
       /\ IF h.pc = "ban" /\ h'.pc = "announce"
          THEN stats'.banned_users = stats.banned_users + 1
          ELSE stats'.banned_users = stats.banned_users]_vars

\* the second violation of a user with warn_before_ban = 2: the ban call
\* succeeded and was counted
C14_Witness ==
    /\ h.pc = "announce"
    /\ settings.warn_before_ban = 2
    /\ users[h.user.id].warnings = 2
    /\ stats.banned_users = 1

\* what C15 says of the failed ban call itself: the exception reaches
\* handle_message's except branch with banned_users as it was, and nothing
\* after it leads back to the ban
FailedBanStep ==
    /\ h.pc = "ban" /\ h'.pc # "announce"
         => /\ h'.pc = "except" /\ h'.exc = "ban_chat_member"
            /\ stats' = stats
    /\ h.pc \in {"except", "error_handler"} /\ h.exc = "ban_chat_member"
         => /\ h'.pc \in {"idle", "error_handler"}
            /\ UNCHANGED <<settings, users, stats, file>>

\* C15 as claimed: when the ban call fails _ban_user re-raises, banned_users
\* is unchanged, handle_message answers with the generic failure notice
\* and the ban is not retried.
C15_FailedBanRaisedAndNoticed ==
    [][/\ FailedBanStep
       /\ h.pc = "except" /\ h.exc = "ban_chat_member"
            => h' = Finish("failure notice")]_vars

\* C15 as amended: ... handle_message catches the error and sends the
\* generic failure notice; when that send raises, no notice of
\* handle_message is posted and the error goes on to error_handler.
C15_FailedBanRaisedAndNoticeTried ==
    [][/\ FailedBanStep
       /\ h.pc = "except" /\ h.exc = "ban_chat_member"
            => \/ h' = Finish("failure notice")
               \/ h' = [h EXCEPT !.pc = "error_handler"]]_vars

\* a first violation under warn_before_ban = 1 whose ban call failed
C15_Witness ==
    /\ h.pc = "except" /\ h.exc = "ban_chat_member"
    /\ users[h.user.id].warnings = 1 /\ settings.warn_before_ban = 1
    /\ stats.violations_found = 1 /\ stats.banned_users = 0

\* Every user of Spec is new when first seen, and every message raises
\* messages by 1 and warnings by at most 1: past the increment of
\* _process_violation, warnings = messages says that all the messages of
\* the sender, this one included, were violations, and warnings is the
\* number of this violation.
AllViolations ==
    /\ h.pc \notin {"idle", "counted", "verdict"}
    /\ users[h.user.id].warnings = users[h.user.id].messages

\* the positions of _process_violation from the warning to the ban
BeforeBan == {"warn", "delete", "annotate", "ban_check", "ban"}

\* what C16 says of the violations before the last: no ban is attempted
\* and banned_users stays; and of the ban: it is counted when it succeeds
CountdownStep ==
    /\ h.pc \notin {"idle", "counted"}
         => users[h.user.id].warnings <= users[h.user.id].messages
    /\ AllViolations /\ users[h.user.id].warnings < settings.warn_before_ban
         => /\ h.pc \notin {"ban", "announce"} /\ h'.pc \notin {"ban", "announce"}
            /\ stats'.banned_users = stats.banned_users
    /\ AllViolations /\ h.pc = "ban" /\ h'.pc = "announce"
         => stats'.banned_users = stats.banned_users + 1

BotIds == { s.id : s \in { s \in Senders : s.is_bot } }

\* C17: a message whose sender is a bot changes nothing: no user record is
\* made for it, no counter of a user or of the stats changes, the handler
\* returns without running the rule filter or the classifier or any
\* enforcement step, and the file is not written.
C17_BotMessagesChangeNothing ==
    [][/\ DOMAIN users' \cap BotIds = {}
       /\ h'.pc # "idle" => ~h'.user.is_bot
       /\ h'.outcome = "sender is bot"
            => /\ h.pc = "idle" /\ h'.pc = "idle"
               /\ UNCHANGED <<settings, users, stats, file>>]_vars

\* a bot's message arrived after a person's message had been counted
C17_Witness ==
    /\ h = Finish("sender is bot")
    /\ stats.messages_checked = 1
    /\ DOMAIN users = {"1001"}
    /\ file = JsonFile(Document(settings, users, stats))

\* C18: for every text message of a sender that is no bot, handle_message
\* makes the sender's record with messages = 0 and warnings = 0 if there
\* is none, then raises that user's messages by exactly 1 and
\* messages_checked by exactly 1, before the rule filter or the classifier
\* runs; no later step of the handler, whatever the verdict and whatever
\* the enforcement ends in, changes either counter.
C18_CountedBeforeChecked ==
    [][/\ h.pc = "idle" /\ h'.pc # "idle"
            => LET sender == h'.user
               IN  /\ h'.pc = "counted"
                   /\ h'.response = NotCalled /\ h'.violation = NoResult
                   /\ DOMAIN users' = DOMAIN users \cup {sender.id}
                   /\ users'[sender.id] =
                         IF sender.id \in DOMAIN users
                         THEN [users[sender.id] EXCEPT !.messages = @ + 1]
                         ELSE [username |-> sender.username,
                               first_name |-> sender.first_name,
                               last_name |-> sender.last_name,
                               warnings |-> 0, messages |-> 1]
                   /\ \A id \in DOMAIN users \ {sender.id} : users'[id] = users[id]
                   /\ stats' = [stats EXCEPT !.messages_checked = @ + 1]
       /\ h.pc = "idle" /\ h'.pc = "idle"
            => /\ h'.outcome \in {"no text", "sender is bot"}
               /\ UNCHANGED <<users, stats>>
       /\ h.pc = "counted" => h'.pc = "verdict"
       /\ h.pc # "idle"
            => /\ stats'.messages_checked = stats.messages_checked
               /\ DOMAIN users' = DOMAIN users
               /\ \A id \in DOMAIN users :
                     users'[id].messages = users[id].messages]_vars

\* the second message of a known user, after a message of someone else:
\* counted, not yet checked
C18_Witness ==
    /\ h.pc = "counted"
    /\ users[h.user.id].messages = 2
    /\ users[h.user.id].warnings = 1
    /\ Cardinality(DOMAIN users) = 2
    /\ stats.messages_checked = 3

\* C19: at the end of processing every message of a sender that is no bot,
\* what the processing changed (message counters, warnings, stats) is
\* written to the store, with no violation and on every enforcement
\* outcome: the handler finishes only through save_data, which is handed
\* the settings, users and stats as they then are.  (A write that fails
\* inside save_data is left aside here: the file then keeps its former
\* content or is cut short.)
C19_SavedAtTheEndOfEveryMessage ==
    [][h.pc # "idle" /\ h'.pc = "idle"
          => /\ h.pc = "save"
             /\ file' \in {JsonFile(Document(settings, users, stats)),
                           file, CorruptFile}]_vars

\* the positions of handle_message where a call can raise
RaisingCalls == {"warn", "annotate", "ban", "announce"}

\* what C20 says of the exception up to the notice: whatever raises while
\* a message is processed is caught by handle_message's except branch,
\* and from there on nothing is processed or changed again
CaughtStep ==
    /\ h'.pc = "except"
         => h.pc \in RaisingCalls /\ h.exc = NoException /\ h'.exc # NoException
    /\ h.pc \notin {"idle", "except", "error_handler"} /\ h'.pc # "except"
         => h'.pc = "idle" \/ h'.exc = NoException
    /\ h.pc \in {"except", "error_handler"}
         => /\ h'.pc \in {"idle", "error_handler"}
            /\ UNCHANGED <<settings, users, stats, file>>

\* C20 as claimed: any exception raised while handle_message processes a
\* message is caught at the top of handle_message, answered with one
\* generic failure notice, never escapes handle_message, and the message
\* is not processed again.
C20_CaughtNoticedAndContained ==
    [][/\ CaughtStep
       /\ h.pc = "except" => h' = Finish("failure notice")
       /\ h'.pc # "error_handler"]_vars

\* C20 as amended: ... is caught at the top of handle_message, which sends
\* one generic failure notice; if that send raises as well, the exception
\* leaves handle_message and is given to error_handler, which sends a
\* notice of its own; in neither case is the message processed again.
C20_CaughtAndNoticeTried ==
    [][/\ CaughtStep
       /\ h.pc = "except"
            => \/ h' = Finish("failure notice")
               \/ h' = [h EXCEPT !.pc = "error_handler"]
       /\ h'.pc = "error_handler" => h.pc = "except"
       /\ h.pc = "error_handler"
            => h' \in {Finish("error notice"), Finish("raised")}]_vars

\* the warning of a first violation could not be sent; the failure notice
\* was posted and the counters of the message are in memory only
C20_Witness ==
    /\ h = Finish("failure notice")
    /\ stats.violations_found = 1
    /\ stats.messages_checked = 1
    /\ file = JsonFile(_default_data)

(***************************************************************************)
(* Properties of the counters.                                             *)
(***************************************************************************)
\* C21: from zeroed stats on, violations_found >= banned_users in every
\* reachable state, whatever the order and the interleaving of the
\* handlings and whichever of their steps fail.
C21_ViolationsAtLeastBans ==
    stats.violations_found >= stats.banned_users

\* two violations of one user under warn_before_ban = 2 and two bans
C21_Witness ==
    /\ stats.violations_found = 2
    /\ stats.banned_users = 2
    /\ h.pc = "idle" /\ probe.task.pc = "idle"

\* C22: within a running process no step (of a message handling or its
\* enforcement, of a command handler, or one that fails) lowers or resets
\* a user's messages or warnings or one of the four counters of the
\* stats, and no user record is removed.
C22_CountersNeverDecrease ==
    [][/\ DOMAIN users \subseteq DOMAIN users'
       /\ \A id \in DOMAIN users :
             /\ users'[id].messages >= users[id].messages
             /\ users'[id].warnings >= users[id].warnings
       /\ stats'.messages_checked >= stats.messages_checked
       /\ stats'.violations_found >= stats.violations_found
       /\ stats'.deleted_messages >= stats.deleted_messages
       /\ stats'.banned_users >= stats.banned_users
       /\ DOMAIN stats' = DOMAIN stats]_vars

\* a command changed the settings after the user had been warned, and a
\* later message of the user was counted
C22_Witness ==
    /\ h.pc = "counted"
    /\ settings.sensitivity = 100
    /\ Len(settings.ban_words) = Len(DefaultBanWords) + 1
    /\ users[h.user.id].warnings = 1
    /\ users[h.user.id].messages = 3
    /\ stats.deleted_messages = 1

(***************************************************************************)
(* Properties of the settings.                                             *)
(***************************************************************************)
\* the arguments of SensitivityArgs that are integers in 1..100, each with
\* its value
LevelOf ==
    { << << <<"1">> >>, 1 >>,
      << << <<"1", "0", "0">> >>, 100 >>,
      << << <<"+", "1">>, <<"9">> >>, 1 >> }

\* the step is a call of /set_sensitivity
IsSetSensitivity ==
    /\ h.pc = "idle"
    /\ "command" \in DOMAIN h'
    /\ h'.command = "set_sensitivity"

\* C26: from the defaults on, sensitivity is an integer in 1..100 in every
\* reachable state: set_sensitivity stores the value and calls save_data
\* only when its argument is an integer in 1..100, and otherwise leaves
\* the settings and the file as they were; nothing else changes it.
C26_SensitivityInRange ==
    [][/\ settings.sensitivity \in 1..100 /\ settings'.sensitivity \in 1..100
       /\ settings'.sensitivity # settings.sensitivity => IsSetSensitivity
       /\ IsSetSensitivity
            => IF \E p \in LevelOf : p[1] = h'.args
               THEN LET level == (CHOOSE p \in LevelOf : p[1] = h'.args)[2]
                    IN  /\ settings' = [settings EXCEPT !.sensitivity = level]
                        /\ file' \in {JsonFile(Document(settings', users, stats)),
                                      file, CorruptFile}
                        /\ h'.outcome = "set"
               ELSE /\ UNCHANGED <<settings, file>>
                    /\ h'.outcome \in {"usage", "not a number", "out of range"}]_vars

\* /set_sensitivity 101 after /set_sensitivity 100 was stored and saved
C26_Witness ==
    /\ h.pc = "idle" /\ h.outcome = "out of range"
    /\ h.args = << <<"1", "0", "1">> >>
    /\ settings.sensitivity = 100
    /\ file = JsonFile(Document(settings, users, stats))

(***************************************************************************)
(* Properties of the state file.                                           *)
(***************************************************************************)
\* C23: for every store of settings, users and stats, a successful
\* save_data followed by _load_data yields settings, users and stats
\* identical to those saved and leaves the file as written, and saving
\* again writes the same document.
C23_RoundTrip ==
    /\ probe.step \in {"loaded", "saved again"}
         => /\ probe.loaded.raised = NoException
            /\ probe.loaded.store.settings = probe.settings
            /\ probe.loaded.store.users = probe.users
            /\ probe.loaded.store.stats = probe.stats
            /\ probe.loaded.file = probe.file
    /\ probe.step = "saved again" => probe.again = probe.file

\* two users, one of them without username, four-digit and zero counters,
\* a sixth ban word and auto_delete off went through save, load and save
C23_Witness ==
    /\ probe.step = "saved again"
    /\ DOMAIN probe.users = {"1001", "1003"}
    /\ probe.users["1003"].username = None
    /\ probe.stats.messages_checked = 1005 /\ probe.stats.banned_users = 10
    /\ Len(probe.settings.ban_words) = Len(DefaultBanWords) + 1
    /\ ~probe.settings.auto_delete
    /\ probe.file.text.members["users"].members["1003"].members["username"] = JNull
    /\ probe.file.text.members["stats"].members["messages_checked"]
           = JNumber(<<"1", "0", "0", "5">>)

\* the file holds a JSON object with the keys settings, users and stats
HasAllKeys(f) ==
    /\ f.kind = "json"
    /\ f.text.t = "object"
    /\ {"settings", "users", "stats"} \subseteq DOMAIN f.text.members

\* C24: when the state file is missing, is not valid JSON, or lacks any of
\* the keys settings, users, stats, _load_data terminates with the store
\* equal to the defaults (sensitivity 70, the starter ban words,
\* auto_delete on, warn_before_ban 3, no users, all stats 0) and the file
\* rewritten with those defaults; when all three keys are present the
\* stored values are loaded unchanged.
C24_DefaultsUnlessAllKeys ==
    probe.op = "load" /\ probe.done
        => /\ probe.ret.raised = NoException
           /\ IF HasAllKeys(probe.file)
              THEN /\ probe.ret.file = probe.file
                   /\ json_dump(probe.ret.store) = probe.file.text
              ELSE /\ probe.ret.store.settings
                         = [sensitivity |-> 70, ban_words |-> DefaultBanWords,
                            auto_delete |-> TRUE, warn_before_ban |-> 3]
                   /\ probe.ret.store.users = NoUsers
                   /\ \A k \in DOMAIN probe.ret.store.stats :
                         probe.ret.store.stats[k] = 0
                   /\ probe.ret.file = JsonFile(probe.ret.store)

\* C25: when writing the state file fails, save_data raises nothing, the
\* in-memory settings, users and stats are unchanged, no failure notice is
\* sent to the chat, and the previously persisted content is what a
\* restart would load.
C25_FailedSaveKeepsThePersisted ==
    [][h.pc = "save" /\ h'.outcome = "save failed"
          => /\ h' = Finish("save failed")
             /\ UNCHANGED <<settings, users, stats>>
             /\ _load_data(file') = _load_data(file)]_vars

(***************************************************************************)
(* Properties of a failed warning.                                         *)
(***************************************************************************)
\* handle_message caught the failed delivery of the warning
WarningFailed(handling) ==
    /\ handling.pc \in {"except", "error_handler"}
    /\ handling.exc = "send_message (warning)"

\* C27: when delivery of the warning fails, the error reaches
\* handle_message's except branch: no delete and no ban is attempted for
\* that message, deleted_messages and banned_users are unchanged, and the
\* increments of the user's warnings and of violations_found already made
\* are not rolled back.
C27_FailedWarningSkipsDeleteAndBan ==
    [][/\ h.pc = "warn" /\ WarningFailed(h')
            => /\ h'.pc = "except"
               /\ UNCHANGED store_vars
               /\ users'[h.user.id].warnings = h.progress.warnings
               /\ h.progress.warnings >= 1 /\ stats'.violations_found >= 1
       /\ WarningFailed(h)
            => /\ h' \in {[h EXCEPT !.pc = "error_handler"],
                          Finish("failure notice"), Finish("error notice"),
                          Finish("raised")}
               /\ UNCHANGED store_vars]_vars

\* the warning of a message that was due for delete and ban was not
\* delivered: nothing deleted, nobody banned
C27_Witness ==
    /\ WarningFailed(h) /\ h.pc = "except"
    /\ settings.auto_delete
    /\ users[h.user.id].warnings >= settings.warn_before_ban
    /\ stats.violations_found >= 1
    /\ stats.deleted_messages = 0 /\ stats.banned_users = 0

AllDone ==
    /\ h = Finish("done")
    /\ probe.task = Finish("done")

RECURSIVE Total(_, _, _)
\* the sum of a counter over the users in ids
Total(us, ids, counter) ==
    IF ids = {} THEN 0
    ELSE LET id == CHOOSE i \in ids : TRUE
         IN  us[id][counter] + Total(us, ids \ {id}, counter)

\* C29: for any interleaving at await points of the handlings of several
\* messages, once all have finished without an exception and with their
\* saves successful, the persisted document equals the in-memory store and
\* holds the increments of every one of those messages: the last save
\* wins and loses no update.  (Every message of these runs is a violation,
\* so each adds one to messages, warnings, messages_checked and
\* violations_found.)
C29_LastSaveHoldsEveryIncrement ==
    AllDone
        => /\ file = JsonFile(Document(settings, users, stats))
           /\ _load_data(file).store = Document(settings, users, stats)
           /\ stats.messages_checked = Total(users, DOMAIN users, "messages")
           /\ stats.violations_found = Total(users, DOMAIN users, "warnings")
           /\ stats.violations_found = stats.messages_checked

\* three messages handled, two of them alice's and interleaved (each saw
\* the other's warning and banned her), all saved
C29_Witness ==
    /\ AllDone
    /\ stats.messages_checked = 3
    /\ DOMAIN users = {"1001", "1002"}
    /\ users["1001"].warnings = 2 /\ settings.warn_before_ban = 2
    /\ stats.banned_users = 2
    /\ users["1002"].warnings = 1

(***************************************************************************)
(* Termination.                                                            *)
(***************************************************************************)
\* the statements of handle_message left to run from a position, at most
Rank(pc) ==
    CASE pc = "counted" -> 11
      [] pc = "verdict" -> 10
      [] pc = "warn" -> 9
      [] pc = "delete" -> 8
      [] pc = "annotate" -> 7
      [] pc = "ban_check" -> 6
      [] pc = "ban" -> 5
      [] pc = "announce" -> 4
      [] pc = "save" -> 3
      [] pc = "except" -> 2
      [] pc = "error_handler" -> 1
      [] pc = "idle" -> 0

\* a handling under way ends, and every step of it moves forward: no
\* position is taken twice
EndsWithoutLoop ==
    /\ (h.pc # "idle") ~> (h.pc = "idle")
    /\ [][h.pc # "idle" => Rank(h'.pc) < Rank(h.pc)]_vars

\* C30 (as stated): every message handling terminates: each external call
\* returning or failing in the end, handle_message reaches a final state
\* in which it has either saved the store or sent the generic failure
\* notice; no step is retried or looped.
C30_EndsSavedOrNoticed ==
    /\ EndsWithoutLoop
    /\ [](h.pc = "idle" => h.outcome \in {"none", "done", "failure notice"})

\* C30: every message handling terminates: each external call returning
\* or failing in the end, handle_message reaches a final state in which it
\* has returned at once (no text, or a bot's message), or has called
\* save_data (whose write may fail, silently), or has tried to send the
\* generic failure notice (when that raises, error_handler tries a notice
\* of its own); no step is retried or looped.
C30_EndsSavedNoticedOrIgnored ==
    /\ EndsWithoutLoop
    /\ [][h'.pc = "idle" /\ h' # h
            => \/ h.pc = "idle" /\ h'.outcome \in {"no text", "sender is bot"}
               \/ h.pc = "save" /\ h'.outcome \in {"done", "save failed"}
               \/ h.pc = "except" /\ h'.outcome = "failure notice"
               \/ h.pc = "error_handler"
                    /\ h'.outcome \in {"error notice", "raised"}]_vars

\* a handling that went the longest way: warned, delete failed, annotated,
\* banned, announced, and its save failed
C30_Witness ==
    /\ h = Finish("save failed")
    /\ file = CorruptFile
    /\ stats.banned_users = 1 /\ stats.deleted_messages = 0
    /\ stats.violations_found = 1 /\ settings.auto_delete

(***************************************************************************)
(* Properties of the ban-word list.                                        *)
(***************************************************************************)
\* the non-empty arguments of BanListArgs, each with the word the command
\* is about
WordOf ==
    { << << <<"H", "I">> >>, <<"h", "i">> >>,
      << << <<"h", "i">> >>, <<"h", "i">> >>,
      << << <<"H", "i">>, <<"Y", "o">> >>, <<"h", "i", " ", "y", "o">> >>,
      << << <<"K", "U", "P", "I", "T">> >>, <<"k", "u", "p", "i", "t">> >> }

\* the step is a call of the command
IsCommand(command) ==
    /\ h.pc = "idle"
    /\ "command" \in DOMAIN h'
    /\ h'.command = command

\* no string is in the list twice
NoDuplicates(ban_words) ==
    \A i, j \in 1..Len(ban_words) : ban_words[i] = ban_words[j] => i = j

\* the list without its entries equal to word, in the order of the list
Without(ban_words, word) ==
    SelectSeq(ban_words, LAMBDA w : w # word)

\* C31: starting from the default list, ban_words never holds the same
\* string twice and every entry add_ban_word added is lower-case:
\* add_ban_word appends the lower-cased word only when it is absent and
\* otherwise leaves the list and the file unchanged, and remove_ban_word
\* of a present word removes it, so that a following add of the same word
\* succeeds.
C31_NoDuplicatesAndLowerCase ==
    [][/\ NoDuplicates(settings.ban_words) /\ NoDuplicates(settings'.ban_words)
       /\ \A i \in 1..Len(settings'.ban_words) :
             \/ \E k \in 1..Len(DefaultBanWords) :
                   settings'.ban_words[i] = DefaultBanWords[k]
             \/ \E p \in WordOf : settings'.ban_words[i] = p[2]
       /\ settings' # settings
            => IsCommand("add_ban_word") \/ IsCommand("remove_ban_word")
       /\ IsCommand("add_ban_word")
            => IF h'.args = <<>>
               THEN UNCHANGED <<settings, file>> /\ h'.outcome = "usage"
               ELSE LET word == (CHOOSE p \in WordOf : p[1] = h'.args)[2]
                    IN  IF Contains(settings.ban_words, word)
                        THEN /\ UNCHANGED <<settings, file>>
                             /\ h'.outcome = "already listed"
                        ELSE /\ settings' = [settings EXCEPT
                                               !.ban_words = Append(@, word)]
                             /\ h'.outcome = "added"
       /\ IsCommand("remove_ban_word")
            => IF h'.args = <<>>
               THEN UNCHANGED <<settings, file>> /\ h'.outcome = "usage"
               ELSE LET word == (CHOOSE p \in WordOf : p[1] = h'.args)[2]
                    IN  IF Contains(settings.ban_words, word)
                        THEN /\ settings' = [settings EXCEPT
                                               !.ban_words = Without(@, word)]
                             /\ ~Contains(settings'.ban_words, word)
                             /\ h'.outcome = "removed"
                        ELSE /\ UNCHANGED <<settings, file>>
                             /\ h'.outcome = "not listed"]_vars

\* a default word was removed and added again (it is now the last entry),
\* after HI had been added once and refused the second time
C31_Witness ==
    /\ h.pc = "idle" /\ h.outcome = "added"
    /\ h.args = << <<"K", "U", "P", "I", "T">> >>
    /\ Len(settings.ban_words) = Len(DefaultBanWords) + 1
    /\ settings.ban_words[Len(DefaultBanWords)] = <<"h", "i">>
    /\ settings.ban_words[Len(DefaultBanWords) + 1] = <<"k", "u", "p", "i", "t">>
    /\ file = JsonFile(Document(settings, users, stats))

(***************************************************************************)
(* Properties of the statistics.                                           *)
(***************************************************************************)
\* C32: starting from the defaults, the sum of the warnings of all user
\* records equals violations_found in every state between two message
\* handlings, after any sequence of messages and whichever enforcement
\* steps failed.
C32_WarningsAddUpToViolations ==
    h.pc = "idle"
        => Total(users, DOMAIN users, "warnings") = stats.violations_found

\* three violations of two users; the last handling ended in the except
\* branch, nothing was deleted and nobody banned
C32_Witness ==
    /\ h = Finish("failure notice")
    /\ DOMAIN users = {"1001", "1002"}
    /\ users["1001"].warnings = 2 /\ users["1002"].warnings = 1
    /\ stats.violations_found = 3
    /\ stats.deleted_messages = 0 /\ stats.banned_users = 0
    /\ settings.auto_delete

\* C33: starting from the defaults, deleted_messages <= violations_found
\* <= messages_checked in every reachable state: a delete is counted only
\* inside an enforcement cycle that has counted its violation and its
\* message.
C33_DeletedViolationsChecked ==
    /\ stats.deleted_messages <= stats.violations_found
    /\ stats.violations_found <= stats.messages_checked

\* the three counters level: every message so far was a violation and was
\* deleted, and the delete of the last one has just been counted
C33_Witness ==
    /\ h.pc = "ban_check"
    /\ stats.deleted_messages = 3
    /\ stats.violations_found = 3
    /\ stats.messages_checked = 3

(***************************************************************************)
(* Properties of repeated bans.                                            *)
(***************************************************************************)
\* the handling is in _process_violation of a violation of a user whose
\* warnings had reached warn_before_ban before it
LaterViolation ==
    /\ h.pc \in {"warn", "delete", "annotate", "ban_check", "ban"}
    /\ h.progress.warnings > settings.warn_before_ban

\* banned_users counts the ban calls that succeeded, one each
CountsBans ==
    /\ h.pc = "ban"
         => \/ h'.pc = "announce"
                 /\ stats'.banned_users = stats.banned_users + 1
            \/ h'.pc = "except" /\ h'.exc = "ban_chat_member"
                 /\ stats'.banned_users = stats.banned_users
    /\ stats'.banned_users # stats.banned_users => h.pc = "ban"

=============================================================================
